---- MODULE Spec2Model ----
(***************************************************************************)
(* Slippage estimation and protection engine of StellarSwipe-Backends:     *)
(* SlippageCalculatorService (src/src/slippage/slippage-calculator.        *)
(* service.ts) and SlippageProtectionService (src/unnamed/part_000).       *)
(*                                                                         *)
(* JavaScript numbers are modelled as exact rationals [n, d] in lowest     *)
(* terms with d > 0, extended with the three non-finite doubles:           *)
(* d = 0 and n = 1 is Infinity, n = -1 is -Infinity, n = 0 is NaN.         *)
(* Rounding of the binary representation and the sign of zero are not      *)
(* modelled.  JavaScript objects with optional properties are records      *)
(* whose domain holds the properties that are present; a Map is a function *)
(* whose domain is its key set.                                            *)
(***************************************************************************)
EXTENDS Integers, Sequences, FiniteSets, TLC

\* ------------------------------------------------------------------------
\* Numbers
\* ------------------------------------------------------------------------
Abs(i) == IF i < 0 THEN -i ELSE i

Sgn(i) == IF i < 0 THEN -1 ELSE IF i > 0 THEN 1 ELSE 0

RECURSIVE GCD(_, _)
GCD(a, b) == IF b = 0 THEN a ELSE GCD(b, a % b)

\* the number n/d (d # 0) in lowest terms with a positive denominator
Rat(n, d) ==
    LET g == GCD(Abs(n), Abs(d))
        s == IF d < 0 THEN -1 ELSE 1
    IN  [n |-> s * (n \div g), d |-> s * (d \div g)]

Int2R(i) == [n |-> i, d |-> 1]
NaN == [n |-> 0, d |-> 0]
Infinity == [n |-> 1, d |-> 0]
NegInfinity == [n |-> -1, d |-> 0]

IsNaN(x) == x.d = 0 /\ x.n = 0
IsFiniteNum(x) == x.d # 0

\* x < y, x <= y, x > y, x >= y of JavaScript: false when an operand is NaN
NumLt(x, y) ==
    /\ ~IsNaN(x)
    /\ ~IsNaN(y)
    /\ IF x.d # 0 /\ y.d # 0 THEN x.n * y.d < y.n * x.d
       ELSE IF x.d = 0 /\ y.d = 0 THEN x.n < y.n
       ELSE IF x.d = 0 THEN x.n < 0
       ELSE y.n > 0

NumEq(x, y) == ~IsNaN(x) /\ ~IsNaN(y) /\ x = y
NumLe(x, y) == NumLt(x, y) \/ NumEq(x, y)
NumGt(x, y) == NumLt(y, x)
NumGe(x, y) == NumLe(y, x)

\* x + y
NumAdd(x, y) ==
    IF IsNaN(x) \/ IsNaN(y) THEN NaN
    ELSE IF x.d = 0 /\ y.d = 0 THEN (IF x.n = y.n THEN x ELSE NaN)
    ELSE IF x.d = 0 THEN x
    ELSE IF y.d = 0 THEN y
    ELSE Rat(x.n * y.d + y.n * x.d, x.d * y.d)

NumNeg(x) == [n |-> -x.n, d |-> x.d]

\* x - y
NumSub(x, y) == NumAdd(x, NumNeg(y))

\* x * y
NumMul(x, y) ==
    IF IsNaN(x) \/ IsNaN(y) THEN NaN
    ELSE IF x.d = 0 \/ y.d = 0
         THEN (IF x.n = 0 \/ y.n = 0 THEN NaN
               ELSE [n |-> Sgn(x.n) * Sgn(y.n), d |-> 0])
    ELSE Rat(x.n * y.n, x.d * y.d)

\* x / y: a finite non-zero number over zero is an infinity, 0/0 is NaN
NumDiv(x, y) ==
    IF IsNaN(x) \/ IsNaN(y) THEN NaN
    ELSE IF x.d = 0 /\ y.d = 0 THEN NaN
    ELSE IF x.d = 0 THEN [n |-> x.n * (IF y.n < 0 THEN -1 ELSE 1), d |-> 0]
    ELSE IF y.d = 0 THEN Int2R(0)
    ELSE IF y.n = 0 THEN (IF x.n = 0 THEN NaN ELSE [n |-> Sgn(x.n), d |-> 0])
    ELSE Rat(x.n * y.d, x.d * y.n)

\* Math.abs, Math.min, Math.max
MathAbs(x) == [n |-> Abs(x.n), d |-> x.d]

MathMin(x, y) ==
    IF IsNaN(x) \/ IsNaN(y) THEN NaN ELSE IF NumLt(y, x) THEN y ELSE x

MathMax(x, y) ==
    IF IsNaN(x) \/ IsNaN(y) THEN NaN ELSE IF NumLt(x, y) THEN y ELSE x

\* ToBoolean of a number: 0 and NaN are falsy
Truthy(x) == ~IsNaN(x) /\ x.n # 0

\* ------------------------------------------------------------------------
\* Objects and maps
\* ------------------------------------------------------------------------
Has(obj, key) == key \in DOMAIN obj

EmptyMap == [k \in {} |-> 0]

MapSet(m, key, val) == [k \in DOMAIN m \cup {key} |-> IF k = key THEN val ELSE m[k]]

MapDelete(m, key) == [k \in DOMAIN m \ {key} |-> m[k]]

\* ------------------------------------------------------------------------
\* Bounds of the model
\* ------------------------------------------------------------------------
\* Capacity of the report log.  The service sets it to 1000
\* (src/unnamed/part_000:49); the model runs the same code with a small
\* capacity so that overflow and eviction are reached.
MAX_REPORTS_IN_MEMORY == 3

\* recordSlippage calls in one run
MaxRecords == 5

\* history updates of one symbol between two clears
MaxSamples == 3

\* largest value of the clock
MaxTime == 2

Symbols == {"BTC/USD", "ETH/USD"}

Users == {"user123", "user456"}

VARIABLES
    userPreferences,    \* Map userId -> UserSlippagePreferences
    mapHeap,            \* the live Map objects of symbol overrides, by reference
    slippageReports,    \* the report log, oldest first
    historicalSlippage, \* Map symbol -> HistoricalSlippage
    now,                \* the clock read by new Date() and Date.now()
    calls,              \* validateTradeExecution calls suspended on the provider
    ret,                \* the call that completed in the last step, with its outcome
    recorded,           \* history: number of completed recordSlippage calls
    clearedAt,          \* history: value of recorded at the last clearReports
    trades,             \* history: symbol and trade time of each completed recordSlippage call
    applied             \* history: per symbol, the values applied since its last clear

vars == <<userPreferences, mapHeap, slippageReports, historicalSlippage, now,
          calls, ret, recorded, clearedAt, trades, applied>>

prefVars == <<userPreferences, mapHeap>>
logVars == <<slippageReports, recorded, clearedAt, trades>>
histVars == <<historicalSlippage, applied>>

\* ------------------------------------------------------------------------
\* SlippageCalculatorService: per-symbol history
\* ------------------------------------------------------------------------
\* the record written by updateHistoricalSlippage
UpdatedRecordLost(hist, symbol, actualSlippage, time) ==
    [symbol |-> symbol,
     averageSlippage |-> actualSlippage,
     maxSlippage |-> actualSlippage,
     sampleCount |-> 1,
     lastUpdated |-> time]

UpdatedRecordHalf(hist, symbol, actualSlippage, time) ==
    IF symbol \in DOMAIN hist
    THEN LET existing == hist[symbol]
             newCount == existing.sampleCount + 1
         IN  [symbol |-> symbol,
              averageSlippage |->
                  NumDiv(NumAdd(existing.averageSlippage, actualSlippage), Int2R(2)),
              maxSlippage |-> MathMax(existing.maxSlippage, actualSlippage),
              sampleCount |-> newCount,
              lastUpdated |-> time]
    ELSE UpdatedRecordLost(hist, symbol, actualSlippage, time)

UpdatedRecord(hist, symbol, actualSlippage, time) ==
    IF symbol \in DOMAIN hist
    THEN LET existing == hist[symbol]
             newCount == existing.sampleCount + 1
             newAverage ==
                 NumDiv(NumAdd(NumMul(existing.averageSlippage,
                                      Int2R(existing.sampleCount)),
                               actualSlippage),
                        Int2R(newCount))
             newMax == MathMax(existing.maxSlippage, actualSlippage)
         IN  [symbol |-> symbol,
              averageSlippage |-> newAverage,
              maxSlippage |-> newMax,
              sampleCount |-> newCount,
              lastUpdated |-> time]
    ELSE [symbol |-> symbol,
          averageSlippage |-> actualSlippage,
          maxSlippage |-> actualSlippage,
          sampleCount |-> 1,
          lastUpdated |-> time]

\* historicalSlippage after updateHistoricalSlippage(symbol, actualSlippage)
updateHistoricalSlippageAll(hist, symbol, actualSlippage, time) ==
    [s \in DOMAIN hist \cup {symbol} |->
        UpdatedRecord(hist, s, actualSlippage, time)]

updateHistoricalSlippageOnce(hist, symbol, actualSlippage, time) ==
    IF symbol \in DOMAIN hist THEN hist
    ELSE MapSet(hist, symbol, UpdatedRecord(hist, symbol, actualSlippage, time))

updateHistoricalSlippage(hist, symbol, actualSlippage, time) ==
    MapSet(hist, symbol, UpdatedRecord(hist, symbol, actualSlippage, time))

\* historicalSlippage after clearHistoricalData(symbol?)
clearHistoricalData(hist, args) ==
    IF Has(args, "symbol") THEN MapDelete(hist, args.symbol) ELSE EmptyMap

\* the history of applied values after a clear
ClearedApplied(args) ==
    [s \in Symbols |->
        IF Has(args, "symbol") /\ args.symbol # s THEN applied[s] ELSE <<>>]

\* a direct call of updateHistoricalSlippage
UpdateHistoricalSlippage(symbol, actualSlippage) ==
    /\ Len(applied[symbol]) < MaxSamples
    /\ historicalSlippage' =
           updateHistoricalSlippage(historicalSlippage, symbol, actualSlippage, now)
    /\ applied' = [applied EXCEPT ![symbol] = Append(@, actualSlippage)]
    /\ ret' = [op |-> "updateHistoricalSlippage", symbol |-> symbol,
               value |-> actualSlippage]
    /\ UNCHANGED <<prefVars, logVars, now, calls>>

\* a call of clearHistoricalData
ClearHistoricalData(args) ==
    /\ historicalSlippage' = clearHistoricalData(historicalSlippage, args)
    /\ applied' = ClearedApplied(args)
    /\ ret' = [op |-> "clearHistoricalData", args |-> args]
    /\ UNCHANGED <<prefVars, logVars, now, calls>>

\* the clock advances
Tick ==
    /\ now < MaxTime
    /\ now' = now + 1
    /\ ret' = [op |-> "tick"]
    /\ UNCHANGED <<prefVars, logVars, histVars, calls>>

\* ------------------------------------------------------------------------
\* SlippageCalculatorService: the estimate
\* ------------------------------------------------------------------------
\* The loop of calculateExecutionPrice from level i on; acc carries
\* remainingQuantity, totalCost and executedQuantity.
RECURSIVE WalkLevels(_, _, _)
WalkLevels(orders, i, acc) ==
    IF i > Len(orders) \/ NumLe(acc.remainingQuantity, Int2R(0)) THEN acc
    ELSE LET fillQuantity == MathMin(acc.remainingQuantity, orders[i].quantity)
         IN  WalkLevels(orders, i + 1,
                 [remainingQuantity |-> NumSub(acc.remainingQuantity, fillQuantity),
                  totalCost |-> NumAdd(acc.totalCost,
                                       NumMul(fillQuantity, orders[i].price)),
                  executedQuantity |-> NumAdd(acc.executedQuantity, fillQuantity)])

calculateExecutionPriceNoPenalty(quantity, side, depth) ==
    LET orders == IF side = "buy" THEN depth.asks ELSE depth.bids
        walked == WalkLevels(orders, 1,
                      [remainingQuantity |-> quantity, totalCost |-> Int2R(0),
                       executedQuantity |-> Int2R(0)])
        short == NumGt(walked.remainingQuantity, Int2R(0)) /\ Len(orders) > 0
        worstPrice == orders[Len(orders)].price
        totalCost ==
            IF short
            THEN NumAdd(walked.totalCost,
                        NumMul(walked.remainingQuantity, worstPrice))
            ELSE walked.totalCost
        executedQuantity ==
            IF short THEN NumAdd(walked.executedQuantity, walked.remainingQuantity)
            ELSE walked.executedQuantity
    IN  IF NumGt(executedQuantity, Int2R(0))
        THEN NumDiv(totalCost, executedQuantity)
        ELSE Int2R(0)

calculateExecutionPrice(quantity, side, depth) ==
    LET orders == IF side = "buy" THEN depth.asks ELSE depth.bids
        walked == WalkLevels(orders, 1,
                      [remainingQuantity |-> quantity, totalCost |-> Int2R(0),
                       executedQuantity |-> Int2R(0)])
        short == NumGt(walked.remainingQuantity, Int2R(0)) /\ Len(orders) > 0
        worstPrice == orders[Len(orders)].price
        totalCost ==
            IF short
            THEN NumAdd(walked.totalCost,
                        NumMul(NumMul(walked.remainingQuantity, worstPrice),
                               Rat(102, 100)))
            ELSE walked.totalCost
        executedQuantity ==
            IF short THEN NumAdd(walked.executedQuantity, walked.remainingQuantity)
            ELSE walked.executedQuantity
    IN  IF NumGt(executedQuantity, Int2R(0))
        THEN NumDiv(totalCost, executedQuantity)
        ELSE Int2R(0)

\* the sum of the quantities of the first k levels
RECURSIVE SumQuantity(_, _)
SumQuantity(orders, k) ==
    IF k = 0 THEN Int2R(0)
    ELSE NumAdd(SumQuantity(orders, k - 1), orders[k].quantity)

\* depth.bids[0]?.price || 0
BestPrice(orders) ==
    IF Len(orders) > 0 /\ Truthy(orders[1].price) THEN orders[1].price ELSE Int2R(0)

calculateLiquidityScore(depth, quantity, side) ==
    LET orders == IF side = "buy" THEN depth.asks ELSE depth.bids
        topLevels == 10
        availableLiquidity ==
            SumQuantity(orders, IF Len(orders) < topLevels THEN Len(orders)
                                ELSE topLevels)
        bestBid == BestPrice(depth.bids)
        bestAsk == BestPrice(depth.asks)
        midPrice == NumDiv(NumAdd(bestBid, bestAsk), Int2R(2))
        spreadPercent ==
            IF NumGt(midPrice, Int2R(0))
            THEN NumMul(NumDiv(NumSub(bestAsk, bestBid), midPrice), Int2R(100))
            ELSE Int2R(100)
        liquidityCoverage == MathMin(NumDiv(availableLiquidity, quantity), Int2R(1))
        spreadScore == MathMax(Int2R(0),
                               NumSub(Int2R(1), NumDiv(spreadPercent, Int2R(2))))
        depthScore == MathMin(NumDiv(Int2R(Len(orders)), Int2R(20)), Int2R(1))
        score == NumAdd(NumAdd(NumMul(liquidityCoverage, Rat(1, 2)),
                               NumMul(spreadScore, Rat(3, 10))),
                        NumMul(depthScore, Rat(1, 5)))
    IN  MathMax(Int2R(0), MathMin(Int2R(1), score))

\* hist is the history map and symbol the key of the record read from it
calculatePriceRange(expectedPrice, estimatedSlippagePercent, hist, symbol) ==
    LET slippagePercent ==
            IF /\ symbol \in DOMAIN hist
               /\ NumGt(hist[symbol].averageSlippage, estimatedSlippagePercent)
            THEN hist[symbol].averageSlippage
            ELSE estimatedSlippagePercent
        rangePercent == NumMul(slippagePercent, Rat(12, 10))
    IN  [min |-> NumMul(expectedPrice,
                        NumSub(Int2R(1), NumDiv(rangePercent, Int2R(100)))),
         max |-> NumMul(expectedPrice,
                        NumAdd(Int2R(1), NumDiv(rangePercent, Int2R(100))))]

\* the reasons collected by generateRecommendation, in order
RecommendationReasons(estimatedSlippage, liquidityScore, hist, symbol) ==
    (IF NumGt(estimatedSlippage, Int2R(1)) THEN <<"High estimated slippage">>
     ELSE <<>>)
    \o (IF NumLt(liquidityScore, Rat(3, 10)) THEN <<"Low market liquidity">>
        ELSE IF NumLt(liquidityScore, Rat(6, 10))
        THEN <<"Moderate market liquidity">>
        ELSE <<>>)
    \o (IF /\ symbol \in DOMAIN hist
           /\ NumGt(estimatedSlippage,
                    NumMul(hist[symbol].averageSlippage, Int2R(2)))
        THEN <<"Slippage significantly higher than historical average">>
        ELSE <<>>)

generateRecommendationHistorical(estimatedSlippage, liquidityScore, hist, symbol) ==
    LET reasons == RecommendationReasons(estimatedSlippage, liquidityScore,
                                         hist, symbol)
        aboveHistory ==
            /\ symbol \in DOMAIN hist
            /\ NumGt(estimatedSlippage,
                     NumMul(hist[symbol].averageSlippage, Int2R(2)))
    IN  IF \/ NumGt(estimatedSlippage, Int2R(2))
           \/ NumLt(liquidityScore, Rat(3, 10))
           \/ aboveHistory
        THEN [recommendation |-> "delay",
              reasoning |-> <<"Consider delaying trade">> \o reasons]
        ELSE IF \/ NumGt(estimatedSlippage, Rat(1, 2))
                \/ NumLt(liquidityScore, Rat(6, 10))
        THEN [recommendation |-> "caution",
              reasoning |-> <<"Proceed with caution">> \o reasons]
        ELSE [recommendation |-> "proceed",
              reasoning |-> <<"Market conditions are favorable with good liquidity">>]

generateRecommendation(estimatedSlippage, liquidityScore, hist, symbol) ==
    LET reasons == RecommendationReasons(estimatedSlippage, liquidityScore,
                                         hist, symbol)
    IN  IF NumGt(estimatedSlippage, Int2R(2)) \/ NumLt(liquidityScore, Rat(3, 10))
        THEN [recommendation |-> "delay",
              reasoning |-> <<"Consider delaying trade">> \o reasons]
        ELSE IF \/ NumGt(estimatedSlippage, Rat(1, 2))
                \/ NumLt(liquidityScore, Rat(6, 10))
        THEN [recommendation |-> "caution",
              reasoning |-> <<"Proceed with caution">> \o reasons]
        ELSE [recommendation |-> "proceed",
              reasoning |-> <<"Market conditions are favorable with good liquidity">>]

\* The value estimateSlippage returns once the provider has answered with
\* currentPrice and depth; hist is the history at that moment.
estimateSlippage(estimationDto, currentPrice, depth, hist) ==
    LET estimatedExecutionPrice ==
            calculateExecutionPrice(estimationDto.quantity, estimationDto.side, depth)
        expectedPrice ==
            IF Has(estimationDto, "expectedPrice") /\ Truthy(estimationDto.expectedPrice)
            THEN estimationDto.expectedPrice ELSE currentPrice
        slippageAmount == MathAbs(NumSub(estimatedExecutionPrice, expectedPrice))
        slippagePercent == NumMul(NumDiv(slippageAmount, expectedPrice), Int2R(100))
        liquidityScore ==
            calculateLiquidityScore(depth, estimationDto.quantity, estimationDto.side)
        rec == generateRecommendation(slippagePercent, liquidityScore, hist,
                                      estimationDto.symbol)
    IN  [estimatedSlippagePercent |-> slippagePercent,
         estimatedSlippageAmount |-> slippageAmount,
         currentMarketPrice |-> currentPrice,
         estimatedPriceRange |->
             calculatePriceRange(expectedPrice, slippagePercent, hist,
                                 estimationDto.symbol),
         liquidityScore |-> liquidityScore,
         recommendation |-> rec.recommendation,
         reasoning |-> rec.reasoning]

getToleranceForLevel(level) ==
    CASE level = "STRICT" -> Rat(1, 10)
      [] level = "MODERATE" -> Rat(1, 2)
      [] level = "RELAXED" -> Int2R(1)

calculateDynamicToleranceUncapped(baseTolerancePercent, liquidityScore, volatility) ==
    LET liquidityAdjustment ==
            IF NumLt(liquidityScore, Rat(1, 2))
            THEN NumSub(Int2R(1), liquidityScore) ELSE Int2R(0)
        volatilityAdjustment ==
            IF NumGt(volatility, Int2R(2))
            THEN NumDiv(volatility, Int2R(10)) ELSE Int2R(0)
    IN  NumMul(baseTolerancePercent,
               NumAdd(NumAdd(Int2R(1), liquidityAdjustment), volatilityAdjustment))

calculateDynamicTolerance(baseTolerancePercent, liquidityScore, volatility) ==
    LET liquidityAdjustment ==
            IF NumLt(liquidityScore, Rat(1, 2))
            THEN NumSub(Int2R(1), liquidityScore) ELSE Int2R(0)
        volatilityAdjustment ==
            IF NumGt(volatility, Int2R(2))
            THEN NumDiv(volatility, Int2R(10)) ELSE Int2R(0)
    IN  MathMin(NumMul(baseTolerancePercent,
                       NumAdd(NumAdd(Int2R(1), liquidityAdjustment),
                              volatilityAdjustment)),
                NumMul(baseTolerancePercent, Int2R(3)))

\* ------------------------------------------------------------------------
\* SlippageProtectionService: configuration and preference store
\* ------------------------------------------------------------------------
DEFAULT_CONFIG ==
    [maxSlippagePercent |-> Rat(1, 2),
     toleranceLevel |-> "MODERATE",
     enableDynamicSlippage |-> TRUE,
     maxExecutionTimeMs |-> Int2R(5000)]

\* validateConfig: "ok", or the message of the BadRequestException it throws
validateConfig(config) ==
    IF \/ NumLt(config.maxSlippagePercent, Int2R(0))
       \/ NumGt(config.maxSlippagePercent, Int2R(100))
    THEN "maxSlippagePercent must be between 0 and 100"
    ELSE IF /\ Has(config, "maxExecutionTimeMs")
            /\ Truthy(config.maxExecutionTimeMs)
            /\ NumLt(config.maxExecutionTimeMs, Int2R(100))
    THEN "maxExecutionTimeMs must be at least 100ms"
    ELSE "ok"

\* References of Map objects.  A Map stays in mapHeap while a user record
\* refers to it; one more reference than users is enough for an allocation
\* that replaces a record.
MapRefs == 1..(Cardinality(Users) + 1)

FreshRef == CHOOSE r \in MapRefs \ DOMAIN mapHeap :
                \A q \in MapRefs \ DOMAIN mapHeap : r <= q

\* the Map objects still referred to by a record of prefs
Live(prefs, heap) ==
    [r \in {q \in DOMAIN heap :
                \E u \in DOMAIN prefs :
                    Has(prefs[u], "symbolOverrides") /\ prefs[u].symbolOverrides = q}
        |-> heap[r]]

\* The symbolOverrides argument of setUserPreferences: absent, a Map the
\* caller has just built, or a Map object that already exists (got from
\* getUserPreferences).
OverridesOf(arg) ==
    IF arg.kind = "new" THEN arg.entries ELSE mapHeap[arg.ref]

\* the first failing validation of setUserPreferences, in the order of the code
SetUserPreferencesCheckDefaultOnly(config, arg) == validateConfig(config)

SetUserPreferencesCheck(config, arg) ==
    IF validateConfig(config) # "ok" THEN validateConfig(config)
    ELSE IF arg.kind = "none" THEN "ok"
    ELSE IF \E k \in DOMAIN OverridesOf(arg) : validateConfig(OverridesOf(arg)[k]) # "ok"
    THEN LET k == CHOOSE k \in DOMAIN OverridesOf(arg) :
                      validateConfig(OverridesOf(arg)[k]) # "ok"
         IN  validateConfig(OverridesOf(arg)[k])
    ELSE "ok"

\* a call of setUserPreferences(userId, config, symbolOverrides?)
SetUserPreferences(userId, config, arg) ==
    LET check == SetUserPreferencesCheck(config, arg)
        ref == IF arg.kind = "new" THEN FreshRef ELSE arg.ref
        base == [userId |-> userId, defaultConfig |-> config, lastUpdated |-> now]
        heap == IF arg.kind = "new" THEN MapSet(mapHeap, ref, arg.entries) ELSE mapHeap
    IN  /\ arg.kind = "ref" => arg.ref \in DOMAIN mapHeap
        /\ IF check = "ok"
           THEN /\ userPreferences' =
                       MapSet(userPreferences, userId,
                              IF arg.kind = "none" THEN base
                              ELSE [userId |-> userId, defaultConfig |-> config,
                                    symbolOverrides |-> ref, lastUpdated |-> now])
                /\ mapHeap' = Live(userPreferences', heap)
           ELSE UNCHANGED <<userPreferences, mapHeap>>
        /\ ret' = [op |-> "setUserPreferences", userId |-> userId,
                   config |-> config, result |-> check]
        /\ UNCHANGED <<logVars, histVars, now, calls>>

\* a call of setSymbolOverride(userId, symbol, config)
SetSymbolOverride(userId, symbol, config) ==
    LET check == validateConfig(config)
        existing == userPreferences[userId]
        hasMap == userId \in DOMAIN userPreferences /\ Has(existing, "symbolOverrides")
        ref == IF hasMap THEN existing.symbolOverrides ELSE FreshRef
        overrides == IF hasMap THEN mapHeap[ref] ELSE EmptyMap
    IN  /\ IF check = "ok"
           THEN /\ mapHeap' = MapSet(mapHeap, ref, MapSet(overrides, symbol, config))
                /\ userPreferences' =
                       MapSet(userPreferences, userId,
                              [userId |-> userId,
                               defaultConfig |->
                                   IF userId \in DOMAIN userPreferences
                                   THEN existing.defaultConfig ELSE DEFAULT_CONFIG,
                               symbolOverrides |-> ref,
                               lastUpdated |-> now])
           ELSE UNCHANGED <<userPreferences, mapHeap>>
        /\ ret' = [op |-> "setSymbolOverride", userId |-> userId, symbol |-> symbol,
                   config |-> config, result |-> check]
        /\ UNCHANGED <<logVars, histVars, now, calls>>

\* a call of clearUserPreferences(userId?)
ClearUserPreferences(args) ==
    /\ userPreferences' =
           IF Has(args, "userId") THEN MapDelete(userPreferences, args.userId)
           ELSE EmptyMap
    /\ mapHeap' = Live(userPreferences', mapHeap)
    /\ ret' = [op |-> "clearUserPreferences", args |-> args]
    /\ UNCHANGED <<logVars, histVars, now, calls>>

\* The preferences of a user as getUserPreferences shows them, the Map of
\* overrides read through its reference.
PrefsView(prefs, heap, userId) ==
    IF Has(prefs[userId], "symbolOverrides")
    THEN [userId |-> prefs[userId].userId,
          defaultConfig |-> prefs[userId].defaultConfig,
          symbolOverrides |-> heap[prefs[userId].symbolOverrides],
          lastUpdated |-> prefs[userId].lastUpdated]
    ELSE prefs[userId]

\* the whole preference store, as its readers see it
StoreView(prefs, heap) == [u \in DOMAIN prefs |-> PrefsView(prefs, heap, u)]

GetUserPreferencesCreating(userId) ==
    /\ userPreferences' =
           IF userId \in DOMAIN userPreferences THEN userPreferences
           ELSE MapSet(userPreferences, userId,
                       [userId |-> userId, defaultConfig |-> DEFAULT_CONFIG])
    /\ ret' = [op |-> "getUserPreferences", userId |-> userId,
               result |-> PrefsView(userPreferences', mapHeap, userId)]
    /\ UNCHANGED <<mapHeap, logVars, histVars, now, calls>>

\* a call of getUserPreferences(userId)
GetUserPreferences(userId) ==
    /\ ret' = IF userId \in DOMAIN userPreferences
              THEN [op |-> "getUserPreferences", userId |-> userId,
                    result |-> PrefsView(userPreferences, mapHeap, userId)]
              ELSE [op |-> "getUserPreferences", userId |-> userId]
    /\ UNCHANGED <<prefVars, logVars, histVars, now, calls>>

\* getApplicableConfig(userId?, symbol?, override?): ctx carries userId and
\* symbol when given, args carries override when given
getApplicableConfigDefaultFirst(prefs, heap, ctx, args) ==
    IF Has(args, "override") THEN args.override
    ELSE IF Has(ctx, "userId") /\ ctx.userId \in DOMAIN prefs
    THEN prefs[ctx.userId].defaultConfig
    ELSE DEFAULT_CONFIG

getApplicableConfig(prefs, heap, ctx, args) ==
    IF Has(args, "override") THEN args.override
    ELSE IF Has(ctx, "userId") /\ ctx.userId \in DOMAIN prefs
    THEN LET userPrefs == prefs[ctx.userId]
         IN  IF /\ Has(ctx, "symbol")
                /\ Has(userPrefs, "symbolOverrides")
                /\ ctx.symbol \in DOMAIN heap[userPrefs.symbolOverrides]
             THEN heap[userPrefs.symbolOverrides][ctx.symbol]
             ELSE userPrefs.defaultConfig
    ELSE DEFAULT_CONFIG

\* ------------------------------------------------------------------------
\* SlippageProtectionService: validateTradeExecution
\* ------------------------------------------------------------------------
calculateMaxAllowedSlippageAlways(config, liquidityScore) ==
    calculateDynamicTolerance(config.maxSlippagePercent, liquidityScore, Int2R(1))

calculateMaxAllowedSlippage(config, liquidityScore) ==
    IF Has(config, "enableDynamicSlippage") /\ config.enableDynamicSlippage
    THEN LET estimatedVolatility == Int2R(1)
         IN  calculateDynamicTolerance(config.maxSlippagePercent, liquidityScore,
                                       estimatedVolatility)
    ELSE config.maxSlippagePercent

generateProtectionResultNoDelay(estimatedSlippage, maxAllowed, recommendation, isWithinLimits) ==
    [allowed |-> isWithinLimits,
     reason |-> "Trade within acceptable slippage limits",
     estimatedSlippage |-> estimatedSlippage,
     maxAllowedSlippage |-> maxAllowed,
     recommendation |-> IF ~isWithinLimits THEN "reject"
                        ELSE IF recommendation = "caution" THEN "caution"
                        ELSE "proceed"]

generateProtectionResult(estimatedSlippage, maxAllowed, recommendation, isWithinLimits) ==
    IF ~isWithinLimits \/ recommendation = "delay"
    THEN [allowed |-> FALSE,
          reason |-> "Estimated slippage exceeds maximum allowed",
          estimatedSlippage |-> estimatedSlippage,
          maxAllowedSlippage |-> maxAllowed,
          recommendation |-> "reject"]
    ELSE IF recommendation = "caution"
    THEN [allowed |-> TRUE,
          reason |-> "Trade allowed with caution - slippage near upper limit",
          estimatedSlippage |-> estimatedSlippage,
          maxAllowedSlippage |-> maxAllowed,
          recommendation |-> "caution"]
    ELSE [allowed |-> TRUE,
          reason |-> "Trade within acceptable slippage limits",
          estimatedSlippage |-> estimatedSlippage,
          maxAllowedSlippage |-> maxAllowed,
          recommendation |-> "proceed"]

\* validateExecutionTiming: TRUE when it logs the warning
validateExecutionTiming(startTime, config, time) ==
    LET maxExecutionTimeMs ==
            IF Has(config, "maxExecutionTimeMs") THEN config.maxExecutionTimeMs
            ELSE Int2R(5000)
        elapsed == Int2R(time - startTime)
        threshold == NumMul(maxExecutionTimeMs, Rat(9, 10))
    IN  NumGt(elapsed, threshold)

\* The part of validateTradeExecution that follows the await: the decision
\* for the estimate under the configuration resolved at the start.
ProtectionResult(config, estimation) ==
    LET maxAllowedSlippage ==
            calculateMaxAllowedSlippage(config, estimation.liquidityScore)
        isWithinLimits == NumLe(estimation.estimatedSlippagePercent, maxAllowedSlippage)
    IN  generateProtectionResult(estimation.estimatedSlippagePercent,
                                 maxAllowedSlippage, estimation.recommendation,
                                 isWithinLimits)

\* config.maxExecutionTimeMs || 5000
BudgetOf(config) ==
    IF Has(config, "maxExecutionTimeMs") /\ Truthy(config.maxExecutionTimeMs)
    THEN config.maxExecutionTimeMs ELSE Int2R(5000)

\* What validateTradeExecution returns for the estimate it awaited, at clock
\* value time; late is the warning of the final timing test.
ValidateReturnAborting(call, estimation, depth, time) ==
    IF NumGt(Int2R(time - call.startTime), BudgetOf(call.config))
    THEN [op |-> "validateTradeExecution.throw", context |-> call.context,
          args |-> call.args, error |-> "execution time limit exceeded"]
    ELSE [op |-> "validateTradeExecution", context |-> call.context,
          args |-> call.args, config |-> call.config, depth |-> depth,
          estimation |-> estimation,
          result |-> ProtectionResult(call.config, estimation),
          warned |-> call.warned,
          executionTime |-> time - call.startTime,
          late |-> NumGt(Int2R(time - call.startTime),
                         NumMul(BudgetOf(call.config), Rat(8, 10)))]

ValidateReturn(call, estimation, depth, time) ==
    LET executionTime == time - call.startTime
    IN  [op |-> "validateTradeExecution", context |-> call.context,
         args |-> call.args, config |-> call.config, depth |-> depth,
         estimation |-> estimation,
         result |-> ProtectionResult(call.config, estimation),
         warned |-> call.warned,
         executionTime |-> executionTime,
         late |-> NumGt(Int2R(executionTime),
                        NumMul(BudgetOf(call.config), Rat(8, 10)))]

\* Calls in flight, each under the name c its caller knows it by.
\* validateTradeExecution and estimateSlippage suspend twice, on
\* getCurrentMarketPrice and on getMarketDepth; any other call may run while
\* one is suspended.  fetched lists the requests the call has made to the
\* provider.
\*
\* validateTradeExecution(context, userConfig?) up to its first suspension;
\* args carries override when userConfig is given
ValidateStart(c, context, args) ==
    LET config == getApplicableConfig(userPreferences, mapHeap, context, args)
    IN  /\ c \notin DOMAIN calls
        /\ calls' = MapSet(calls, c,
                        [kind |-> "validateTradeExecution",
                         pc |-> "getCurrentMarketPrice",
                         context |-> context,
                         args |-> args,
                         dto |-> [symbol |-> context.symbol, side |-> context.side,
                                  quantity |-> context.quantity,
                                  expectedPrice |-> context.expectedPrice],
                         config |-> config,
                         startTime |-> now,
                         warned |-> validateExecutionTiming(now, config, now),
                         fetched |-> <<"getCurrentMarketPrice">>])
        /\ ret' = [op |-> "validateTradeExecution.start", call |-> c,
                   context |-> context, args |-> args]
        /\ UNCHANGED <<prefVars, logVars, histVars, now>>

\* estimateSlippage(estimationDto) called directly, up to its first suspension
EstimateStart(c, estimationDto) ==
    /\ c \notin DOMAIN calls
    /\ calls' = MapSet(calls, c,
                    [kind |-> "estimateSlippage",
                     pc |-> "getCurrentMarketPrice",
                     dto |-> estimationDto,
                     startTime |-> now,
                     fetched |-> <<"getCurrentMarketPrice">>])
    /\ ret' = [op |-> "estimateSlippage.start", call |-> c]
    /\ UNCHANGED <<prefVars, logVars, histVars, now>>

\* the provider answers getCurrentMarketPrice; the call suspends on getMarketDepth
ProviderPrice(c, price) ==
    /\ c \in DOMAIN calls
    /\ calls[c].pc = "getCurrentMarketPrice"
    /\ calls' = [calls EXCEPT ![c] =
                     [k \in DOMAIN @ \cup {"currentPrice"} |->
                         IF k = "currentPrice" THEN price
                         ELSE IF k = "pc" THEN "getMarketDepth"
                         ELSE IF k = "fetched" THEN Append(@[k], "getMarketDepth")
                         ELSE @[k]]]
    /\ ret' = [op |-> "getCurrentMarketPrice", call |-> c]
    /\ UNCHANGED <<prefVars, logVars, histVars, now>>

ProviderDepthLateConfig(c, depth) ==
    /\ c \in DOMAIN calls
    /\ calls[c].pc = "getMarketDepth"
    /\ calls[c].kind \in {"estimateSlippage", "validateTradeExecution"}
    /\ LET call == calls[c]
           estimation == estimateSlippage(call.dto, call.currentPrice, depth,
                                          historicalSlippage)
       IN  ret' = IF call.kind = "estimateSlippage"
                  THEN [op |-> "estimateSlippage", dto |-> call.dto,
                        depth |-> depth, result |-> estimation]
                  ELSE [ValidateReturn(call, estimation, depth, now) EXCEPT
                            !.result =
                                ProtectionResult(
                                    getApplicableConfig(userPreferences, mapHeap,
                                                        call.context, call.args),
                                    estimation)]
    /\ calls' = MapDelete(calls, c)
    /\ UNCHANGED <<prefVars, logVars, histVars, now>>

\* the provider answers getMarketDepth; the call runs to its end and returns
ProviderDepth(c, depth) ==
    /\ c \in DOMAIN calls
    /\ calls[c].pc = "getMarketDepth"
    /\ calls[c].kind \in {"estimateSlippage", "validateTradeExecution"}
    /\ LET call == calls[c]
           estimation == estimateSlippage(call.dto, call.currentPrice, depth,
                                          historicalSlippage)
       IN  ret' = IF call.kind = "estimateSlippage"
                  THEN [op |-> "estimateSlippage", dto |-> call.dto,
                        depth |-> depth, result |-> estimation]
                  ELSE ValidateReturn(call, estimation, depth, now)
    /\ calls' = MapDelete(calls, c)
    /\ UNCHANGED <<prefVars, logVars, histVars, now>>

\* ------------------------------------------------------------------------
\* Realized slippage and the report log
\* ------------------------------------------------------------------------
calculateActualSlippage(expectedPrice, actualPrice, quantity) ==
    LET slippageAmount == MathAbs(NumSub(actualPrice, expectedPrice))
    IN  [slippageAmount |-> slippageAmount,
         slippagePercent |-> NumMul(NumDiv(slippageAmount, expectedPrice), Int2R(100)),
         totalCost |-> NumMul(slippageAmount, quantity)]

\* the elements of seq after the first k
DropFirst(seq, k) == SubSeq(seq, k + 1, Len(seq))

\* slippageReports after storeReport(report)
storeReportDropNewest(reports, report) ==
    LET pushed == Append(reports, report)
    IN  IF Len(pushed) > MAX_REPORTS_IN_MEMORY
        THEN SubSeq(pushed, 1, MAX_REPORTS_IN_MEMORY)
        ELSE pushed

storeReportNoTrim(reports, report) == Append(reports, report)

storeReport(reports, report) ==
    LET pushed == Append(reports, report)
    IN  IF Len(pushed) > MAX_REPORTS_IN_MEMORY
        THEN DropFirst(pushed, Len(pushed) - MAX_REPORTS_IN_MEMORY)
        ELSE pushed

\* the limit recordSlippage compares the realized percent with
maxAllowedDynamic(config) == calculateMaxAllowedSlippage(config, Int2R(0))

maxAllowed(config) == config.maxSlippagePercent

\* A call of recordSlippage(context, actualExecutionPrice).  The function is
\* declared async but awaits nothing: its body runs to completion within the
\* call, so calls issued together run one after the other in call order.
\* The report object's identity is its serial number, id.
RecordSlippage(context, actualExecutionPrice) ==
    LET slippage == calculateActualSlippage(context.expectedPrice,
                                            actualExecutionPrice, context.quantity)
        config == getApplicableConfig(userPreferences, mapHeap, context, EmptyMap)
        withinLimits == NumLe(slippage.slippagePercent, maxAllowed(config))
        report == [expectedPrice |-> context.expectedPrice,
                   actualPrice |-> actualExecutionPrice,
                   slippageAmount |-> slippage.slippageAmount,
                   slippagePercent |-> slippage.slippagePercent,
                   quantity |-> context.quantity,
                   totalSlippageCost |-> slippage.totalCost,
                   withinLimits |-> withinLimits,
                   timestamp |-> now,
                   symbol |-> context.symbol,
                   side |-> context.side,
                   id |-> recorded + 1]
    IN  /\ recorded < MaxRecords
        /\ slippageReports' = storeReport(slippageReports, report)
        /\ historicalSlippage' =
               updateHistoricalSlippage(historicalSlippage, context.symbol,
                                        slippage.slippagePercent, now)
        /\ recorded' = recorded + 1
        /\ trades' = Append(trades, [symbol |-> context.symbol,
                                     timestamp |-> context.timestamp])
        /\ applied' = [applied EXCEPT ![context.symbol] =
                           Append(@, slippage.slippagePercent)]
        /\ ret' = [op |-> "recordSlippage", context |-> context, result |-> report]
        /\ UNCHANGED <<prefVars, clearedAt, now, calls>>

\* a call of clearReports()
ClearReports ==
    /\ slippageReports' = <<>>
    /\ clearedAt' = recorded
    /\ ret' = [op |-> "clearReports"]
    /\ UNCHANGED <<prefVars, recorded, trades, histVars, now, calls>>

\* ------------------------------------------------------------------------
\* Initial state: both services just constructed
\* ------------------------------------------------------------------------
Init ==
    /\ userPreferences = EmptyMap
    /\ mapHeap = EmptyMap
    /\ slippageReports = <<>>
    /\ historicalSlippage = EmptyMap
    /\ now = 0
    /\ calls = EmptyMap
    /\ ret = [op |-> "init"]
    /\ recorded = 0
    /\ clearedAt = 0
    /\ trades = <<>>
    /\ applied = [s \in Symbols |-> <<>>]

\* trade contexts of recordSlippage calls
ctxBtc == [symbol |-> "BTC/USD", side |-> "buy", quantity |-> Int2R(1),
           expectedPrice |-> Int2R(45000), timestamp |-> 0]
ctxEth == [symbol |-> "ETH/USD", side |-> "sell", quantity |-> Int2R(10),
           expectedPrice |-> Int2R(3000), timestamp |-> 0, userId |-> "user123"]

\* slippage percentages fed to the history directly
SlippageValues == {Rat(1, 5), Rat(2, 5)}

ClearArgs == {EmptyMap} \cup {[symbol |-> s] : s \in Symbols}

\* History updates issued directly and through recordSlippage, interleaved.
NextHist ==
    \/ \E s \in Symbols, v \in SlippageValues : UpdateHistoricalSlippage(s, v)
    \/ \E a \in ClearArgs : ClearHistoricalData(a)
    \/ /\ Len(applied["BTC/USD"]) < MaxSamples
       /\ RecordSlippage(ctxBtc, Int2R(45050))

SpecHist == Init /\ [][NextHist]_vars

\* configurations written by callers
cfgStrict == [maxSlippagePercent |-> Rat(3, 10), toleranceLevel |-> "STRICT",
              enableDynamicSlippage |-> FALSE]
cfgBtc == [maxSlippagePercent |-> Rat(1, 5), toleranceLevel |-> "STRICT"]
cfgTooHigh == [maxSlippagePercent |-> Int2R(150), toleranceLevel |-> "MODERATE"]
cfgNegative == [maxSlippagePercent |-> Rat(-1, 2), toleranceLevel |-> "MODERATE"]
cfgTimeZero == [maxSlippagePercent |-> Rat(1, 2), maxExecutionTimeMs |-> Int2R(0)]
cfgTimeShort == [maxSlippagePercent |-> Rat(1, 2), maxExecutionTimeMs |-> Int2R(50)]
cfgTimeLong == [maxSlippagePercent |-> Rat(1, 2), maxExecutionTimeMs |-> Int2R(40000)]

PrefDefaultConfigs == {cfgStrict, cfgTooHigh, cfgTimeLong}

PrefOverrideConfigs == {cfgBtc, cfgNegative, cfgTimeZero, cfgTimeShort}

PrefOverrideArgs ==
    {[kind |-> "none"],
     [kind |-> "new", entries |-> [s \in {"BTC/USD"} |-> cfgBtc]],
     [kind |-> "new", entries |-> [s \in Symbols |->
                                     IF s = "BTC/USD" THEN cfgBtc ELSE cfgTooHigh]]}
    \cup {[kind |-> "ref", ref |-> r] : r \in MapRefs}

ClearPrefArgs == {EmptyMap} \cup {[userId |-> u] : u \in Users}

NextPrefs ==
    \/ \E u \in Users, c \in PrefDefaultConfigs, a \in PrefOverrideArgs :
           SetUserPreferences(u, c, a)
    \/ \E u \in Users, s \in Symbols, c \in PrefOverrideConfigs :
           SetSymbolOverride(u, s, c)
    \/ \E a \in ClearPrefArgs : ClearUserPreferences(a)
    \/ \E u \in Users : GetUserPreferences(u)

SpecPrefs == Init /\ [][NextPrefs]_vars

LogContexts == {ctxBtc, ctxEth}

NextLog ==
    \/ \E c \in LogContexts : RecordSlippage(c, NumAdd(c.expectedPrice, Int2R(50)))
    \/ ClearReports
    \/ Tick

SpecLog == Init /\ [][NextLog]_vars

\* order books and prices the market depth provider answers with
Level(price, quantity) == [price |-> Int2R(price), quantity |-> Int2R(quantity)]

bookTight == [bids |-> <<Level(1000, 2), Level(999, 2), Level(998, 2)>>,
              asks |-> <<Level(1000, 2), Level(1001, 2), Level(1002, 2)>>,
              timestamp |-> 0]
bookWide == [bids |-> <<Level(960, 1)>>,
             asks |-> <<Level(1000, 1)>>,
             timestamp |-> 0]
bookEmpty == [bids |-> <<>>, asks |-> <<>>, timestamp |-> 0]

Books == {bookTight, bookWide, bookEmpty}

MarketPrices == {Int2R(1000)}

\* contexts of validateTradeExecution calls
TradeContext(symbol, quantity, price) ==
    [symbol |-> symbol, side |-> "buy", quantity |-> Int2R(quantity),
     expectedPrice |-> Int2R(price), timestamp |-> 0]

WithUser(context, userId) ==
    [k \in DOMAIN context \cup {"userId"} |->
        IF k = "userId" THEN userId ELSE context[k]]

ValidateContexts ==
    {TradeContext("BTC/USD", 1, 1000),
     WithUser(TradeContext("BTC/USD", 1, 1000), "user123"),
     WithUser(TradeContext("BTC/USD", 2, 1000), "user123"),
     WithUser(TradeContext("ETH/USD", 10, 1000), "user123"),
     WithUser(TradeContext("ETH/USD", 100, 1000), "user456")}

cfgDynamic == [maxSlippagePercent |-> Rat(3, 10), toleranceLevel |-> "MODERATE",
               enableDynamicSlippage |-> TRUE, maxExecutionTimeMs |-> Int2R(5000)]
cfgDefault == [maxSlippagePercent |-> Rat(1, 2), toleranceLevel |-> "MODERATE"]
cfgRelaxed == [maxSlippagePercent |-> Int2R(2), toleranceLevel |-> "RELAXED",
               enableDynamicSlippage |-> FALSE]

ValidateArgs == {EmptyMap, [override |-> cfgRelaxed]}

NextValidate ==
    \/ \E c \in {cfgStrict, cfgDynamic, cfgDefault} :
           SetUserPreferences("user123", c, [kind |-> "none"])
    \/ SetSymbolOverride("user123", "BTC/USD", cfgBtc)
    \/ ClearUserPreferences(EmptyMap)
    \/ \E x \in ValidateContexts, a \in ValidateArgs : ValidateStart(1, x, a)
    \/ \E p \in MarketPrices : ProviderPrice(1, p)
    \/ \E d \in Books : ProviderDepth(1, d)

SpecValidate == Init /\ [][NextValidate]_vars

\* Every operation of the two services, interleaved.
EstimateDtos == {[symbol |-> "BTC/USD", side |-> "sell", quantity |-> Int2R(2)]}

Next ==
    \/ SetUserPreferences("user123", cfgStrict, [kind |-> "none"])
    \/ SetSymbolOverride("user123", "BTC/USD", cfgBtc)
    \/ ClearUserPreferences(EmptyMap)
    \/ GetUserPreferences("user123")
    \/ RecordSlippage(WithUser(ctxBtc, "user123"), Int2R(45090))
    \/ ClearReports
    \/ UpdateHistoricalSlippage("BTC/USD", Rat(1, 5))
    \/ \E a \in {EmptyMap, [symbol |-> "BTC/USD"]} : ClearHistoricalData(a)
    \/ ValidateStart(1, WithUser(TradeContext("BTC/USD", 2, 1000), "user123"), EmptyMap)
    \/ \E d \in EstimateDtos : EstimateStart(1, d)
    \/ \E p \in MarketPrices : ProviderPrice(1, p)
    \/ ProviderDepth(1, bookWide)

Spec == Init /\ [][Next]_vars

\* ------------------------------------------------------------------------
\* Properties
\* ------------------------------------------------------------------------
Min(a, b) == IF a < b THEN a ELSE b

Count(hist, s) == IF s \in DOMAIN hist THEN hist[s].sampleCount ELSE 0

RECURSIVE SumSeq(_)
SumSeq(seq) == IF seq = <<>> THEN Int2R(0) ELSE NumAdd(seq[1], SumSeq(Tail(seq)))

RECURSIVE MaxSeq(_)
MaxSeq(seq) ==
    IF Len(seq) = 1 THEN seq[1]
    ELSE LET m == MaxSeq(Tail(seq)) IN IF NumLt(m, seq[1]) THEN seq[1] ELSE m

\* C1: the report log never holds more than its capacity, and it holds
\* exactly the most recently recorded reports since the last clear, in
\* recording order: after capacity+k records with no clear, the k oldest are
\* gone and no other.
C1_LogBounded ==
    /\ Len(slippageReports) <= MAX_REPORTS_IN_MEMORY
    /\ Len(slippageReports) = Min(MAX_REPORTS_IN_MEMORY, recorded - clearedAt)
    /\ \A i \in 1..Len(slippageReports) :
           slippageReports[i].id = recorded - Len(slippageReports) + i

C1_Witness ==
    /\ clearedAt = 0
    /\ recorded = MAX_REPORTS_IN_MEMORY + 2
    /\ Len(slippageReports) = MAX_REPORTS_IN_MEMORY
    /\ slippageReports[1].id = 3

\* C2: whatever the order in which recordSlippage calls run, each call's
\* report enters the log once, as the newest entry, and only the oldest entry
\* leaves, and only when the log is full; otherwise the log changes only by
\* clearReports.
C2_ExactlyOnce ==
    [][/\ \A i, j \in 1..Len(slippageReports') :
              slippageReports'[i].id = slippageReports'[j].id => i = j
       /\ IF recorded' = recorded + 1
          THEN /\ ret'.op = "recordSlippage"
               /\ slippageReports' =
                      IF Len(slippageReports) < MAX_REPORTS_IN_MEMORY
                      THEN Append(slippageReports, ret'.result)
                      ELSE Tail(Append(slippageReports, ret'.result))
          ELSE \/ slippageReports' = slippageReports
               \/ ret'.op = "clearReports" /\ slippageReports' = <<>>]_vars

C2_Witness ==
    /\ ret.op = "recordSlippage"
    /\ Len(slippageReports) = MAX_REPORTS_IN_MEMORY
    /\ slippageReports[Len(slippageReports)] = ret.result
    /\ slippageReports[1].id > clearedAt + 1
    /\ \E i \in 1..Len(slippageReports) : slippageReports[i].symbol # ret.result.symbol

\* C3: an updateHistoricalSlippage call raises the symbol's sampleCount by
\* exactly one, and only clearHistoricalData ever lowers a sampleCount or
\* removes a record.
C3_SampleCount ==
    [][/\ ret'.op = "updateHistoricalSlippage" =>
              Count(historicalSlippage', ret'.symbol) =
                  Count(historicalSlippage, ret'.symbol) + 1
       /\ ret'.op # "clearHistoricalData" =>
              \A s \in Symbols :
                  Count(historicalSlippage', s) >= Count(historicalSlippage, s)]_vars

C3_Witness ==
    /\ ret.op = "updateHistoricalSlippage"
    /\ Count(historicalSlippage, "BTC/USD") >= 3
    /\ recorded - clearedAt > MAX_REPORTS_IN_MEMORY

\* C4: after N updates of a symbol with v1..vN and no clear, its record has
\* sampleCount N, averageSlippage mean(v1..vN) and maxSlippage max(v1..vN).
C4_RunningAverage ==
    \A s \in Symbols :
        IF applied[s] = <<>> THEN s \notin DOMAIN historicalSlippage
        ELSE /\ s \in DOMAIN historicalSlippage
             /\ historicalSlippage[s].sampleCount = Len(applied[s])
             /\ historicalSlippage[s].averageSlippage =
                    NumDiv(SumSeq(applied[s]), Int2R(Len(applied[s])))
             /\ historicalSlippage[s].maxSlippage = MaxSeq(applied[s])

C4_Witness ==
    /\ applied["BTC/USD"] = <<Rat(1, 5), Rat(2, 5), Rat(1, 9)>>
    /\ historicalSlippage["BTC/USD"].averageSlippage = Rat(32, 135)
    /\ historicalSlippage["BTC/USD"].maxSlippage = Rat(2, 5)
    /\ applied["ETH/USD"] # <<>>

\* C5: every history update, direct or through recordSlippage, is one whole
\* step on its symbol's record: the count grows by one together with the
\* average and the maximum of the old record and the new value, and the
\* records of the other symbols stay as they were.
C5_Serialized ==
    [][\A s \in Symbols :
          /\ applied'[s] = applied[s] =>
                 /\ (s \in DOMAIN historicalSlippage') = (s \in DOMAIN historicalSlippage)
                 /\ s \in DOMAIN historicalSlippage =>
                        historicalSlippage'[s] = historicalSlippage[s]
          /\ (applied'[s] # applied[s] /\ applied'[s] # <<>>) =>
                 LET v == applied'[s][Len(applied'[s])]
                     n == Count(historicalSlippage, s)
                     new == historicalSlippage'[s]
                 IN  /\ applied'[s] = Append(applied[s], v)
                     /\ new.sampleCount = n + 1
                     /\ NumMul(new.averageSlippage, Int2R(n + 1)) =
                            SumSeq(applied'[s])
                     /\ new.maxSlippage = MaxSeq(applied'[s])]_vars

C5_Witness ==
    /\ ret.op = "recordSlippage"
    /\ Len(applied["BTC/USD"]) = 3
    /\ \E i \in 1..2 : applied["BTC/USD"][i] # ret.result.slippagePercent
    /\ Len(applied["ETH/USD"]) >= 2

\* the override of user u for symbol s, if there is one
HasOverride(u, s) ==
    /\ Has(userPreferences[u], "symbolOverrides")
    /\ s \in DOMAIN mapHeap[userPreferences[u].symbolOverrides]

OverrideOf(u, s) == mapHeap[userPreferences[u].symbolOverrides][s]

\* C6: validateTradeExecution resolves its configuration by strict
\* precedence: the explicit override, else the user's override for the
\* symbol, else the user's default, else the system default; a user with
\* default max 0.5 and a BTC/USD override of max 0.2 gets 0.2 for BTC/USD
\* and 0.5 for any other symbol.
C6_ConfigPrecedence ==
    ret.op = "validateTradeExecution.start" =>
        LET x == ret.context
            cfg == calls[ret.call].config
            known == Has(x, "userId") /\ x.userId \in DOMAIN userPreferences
        IN  /\ cfg = IF Has(ret.args, "override") THEN ret.args.override
                     ELSE IF known /\ HasOverride(x.userId, x.symbol)
                     THEN OverrideOf(x.userId, x.symbol)
                     ELSE IF known THEN userPreferences[x.userId].defaultConfig
                     ELSE [maxSlippagePercent |-> Rat(1, 2),
                           toleranceLevel |-> "MODERATE",
                           enableDynamicSlippage |-> TRUE,
                           maxExecutionTimeMs |-> Int2R(5000)]
            /\ ( /\ known
                 /\ ~Has(ret.args, "override")
                 /\ userPreferences[x.userId].defaultConfig.maxSlippagePercent = Rat(1, 2)
                 /\ HasOverride(x.userId, "BTC/USD")
                 /\ OverrideOf(x.userId, "BTC/USD").maxSlippagePercent = Rat(1, 5)
                 /\ ~HasOverride(x.userId, "ETH/USD") )
               => cfg.maxSlippagePercent =
                      IF x.symbol = "BTC/USD" THEN Rat(1, 5) ELSE Rat(1, 2)

C6_Witness ==
    /\ ret.op = "validateTradeExecution.start"
    /\ ~Has(ret.args, "override")
    /\ Has(ret.context, "userId")
    /\ ret.context.symbol = "BTC/USD"
    /\ ret.context.userId \in DOMAIN userPreferences
    /\ userPreferences[ret.context.userId].defaultConfig.maxSlippagePercent = Rat(1, 2)
    /\ calls[ret.call].config.maxSlippagePercent = Rat(1, 5)

\* a validateTradeExecution call has returned a decision derived from the
\* stored default config of its user: no explicit override, and no override
\* for the symbol
DecidedOnUserDefault ==
    /\ ret.op = "validateTradeExecution"
    /\ ~Has(ret.args, "override")
    /\ Has(ret.context, "userId")
    /\ ret.context.userId \in DOMAIN userPreferences
    /\ ~HasOverride(ret.context.userId, ret.context.symbol)
    /\ ret.config = userPreferences[ret.context.userId].defaultConfig

\* C7 as stated: a decision for a user whose default config has max m has
\* maxAllowedSlippage <= m.
C7_Original ==
    DecidedOnUserDefault =>
        NumLe(ret.result.maxAllowedSlippage, ret.config.maxSlippagePercent)

\* C7, amended: a decision for a user whose default config has max m and
\* does not enable dynamic slippage has maxAllowedSlippage <= m; when the
\* config enables dynamic slippage the bound is 3*m.
C7_Amended ==
    DecidedOnUserDefault =>
        IF Has(ret.config, "enableDynamicSlippage") /\ ret.config.enableDynamicSlippage
        THEN NumLe(ret.result.maxAllowedSlippage,
                   NumMul(Int2R(3), ret.config.maxSlippagePercent))
        ELSE NumLe(ret.result.maxAllowedSlippage, ret.config.maxSlippagePercent)

C7_Witness ==
    /\ DecidedOnUserDefault
    /\ ret.config.maxSlippagePercent = Rat(3, 10)
    /\ ~Has(ret.config, "enableDynamicSlippage") \/ ~ret.config.enableDynamicSlippage
    /\ NumLt(ret.estimation.liquidityScore, Rat(1, 2))
    /\ ret.result.maxAllowedSlippage = Rat(3, 10)

\* C8: the decision is reject (not allowed) when the estimated percent is
\* above the maximum allowed or the engine says delay, else caution (allowed)
\* when the engine says caution, else proceed (allowed); it carries the two
\* values that were compared.
C8_Decision ==
    ret.op = "validateTradeExecution" =>
        LET est == ret.estimation
            r == ret.result
        IN  /\ r.estimatedSlippage = est.estimatedSlippagePercent
            /\ r.maxAllowedSlippage =
                   IF Has(ret.config, "enableDynamicSlippage")
                          /\ ret.config.enableDynamicSlippage
                          /\ NumLt(est.liquidityScore, Rat(1, 2))
                   THEN MathMin(NumMul(ret.config.maxSlippagePercent,
                                       NumSub(Int2R(2), est.liquidityScore)),
                                NumMul(ret.config.maxSlippagePercent, Int2R(3)))
                   ELSE ret.config.maxSlippagePercent
            /\ IF \/ NumGt(r.estimatedSlippage, r.maxAllowedSlippage)
                  \/ est.recommendation = "delay"
               THEN ~r.allowed /\ r.recommendation = "reject"
               ELSE IF est.recommendation = "caution"
               THEN r.allowed /\ r.recommendation = "caution"
               ELSE r.allowed /\ r.recommendation = "proceed"

C8_Witness ==
    /\ ret.op = "validateTradeExecution"
    /\ ret.estimation.recommendation = "delay"
    /\ NumLe(ret.estimation.estimatedSlippagePercent, ret.result.maxAllowedSlippage)
    /\ ~ret.result.allowed
    /\ ret.result.recommendation = "reject"

\* a config whose maxSlippagePercent is outside [0, 100] or whose
\* maxExecutionTimeMs is given and outside [100, 30000]
TimeOutOfRange(config) ==
    /\ Has(config, "maxExecutionTimeMs")
    /\ \/ NumLt(config.maxExecutionTimeMs, Int2R(100))
       \/ NumGt(config.maxExecutionTimeMs, Int2R(30000))

OutOfRange(config) ==
    \/ NumLt(config.maxSlippagePercent, Int2R(0))
    \/ NumGt(config.maxSlippagePercent, Int2R(100))
    \/ TimeOutOfRange(config)

\* C9 as stated: a setUserPreferences or setSymbolOverride call that carries
\* an out-of-range config fails and leaves the preference store as it was.
C9_Original ==
    [][/\ \A u \in Users, c \in PrefDefaultConfigs, a \in PrefOverrideArgs :
              ( /\ SetUserPreferences(u, c, a)
                /\ \/ OutOfRange(c)
                   \/ /\ a.kind # "none"
                      /\ \E k \in DOMAIN OverridesOf(a) : OutOfRange(OverridesOf(a)[k]) )
              => /\ ret'.result # "ok"
                 /\ StoreView(userPreferences', mapHeap') =
                        StoreView(userPreferences, mapHeap)
       /\ \A u \in Users, s \in Symbols, c \in PrefOverrideConfigs :
              (SetSymbolOverride(u, s, c) /\ OutOfRange(c))
              => /\ ret'.result # "ok"
                 /\ StoreView(userPreferences', mapHeap') =
                        StoreView(userPreferences, mapHeap)]_vars

\* C10 as stated: a config written through setUserPreferences or
\* setSymbolOverride whose maxExecutionTimeMs is given and outside
\* [100, 30000] is rejected.
C10_Original ==
    (ret.op \in {"setUserPreferences", "setSymbolOverride"}
        /\ TimeOutOfRange(ret.config))
    => ret.result # "ok"

\* ------------------------------------------------------------------------
\* Stored configurations
\* ------------------------------------------------------------------------
InPercentRange(x) == NumGe(x, Int2R(0)) /\ NumLe(x, Int2R(100))

\* C11: in every state of the preference store, every stored config (each
\* user's defaultConfig and every entry of each user's symbolOverrides) has
\* 0 <= maxSlippagePercent <= 100, whatever calls, accepted or rejected,
\* led to it.
C11_StoredInRange ==
    \A u \in DOMAIN userPreferences :
        LET view == PrefsView(userPreferences, mapHeap, u)
        IN  /\ InPercentRange(view.defaultConfig.maxSlippagePercent)
            /\ Has(view, "symbolOverrides") =>
                   \A s \in DOMAIN view.symbolOverrides :
                       InPercentRange(view.symbolOverrides[s].maxSlippagePercent)

\* a call with a percent out of range has just been rejected while the
\* store holds a default and an override
C11_Witness ==
    /\ ret.op = "setUserPreferences"
    /\ ret.result = "maxSlippagePercent must be between 0 and 100"
    /\ ~InPercentRange(ret.config.maxSlippagePercent)
    /\ \E u \in DOMAIN userPreferences :
           /\ Has(userPreferences[u], "symbolOverrides")
           /\ DOMAIN mapHeap[userPreferences[u].symbolOverrides] # {}

\* ------------------------------------------------------------------------
\* recordSlippage under stored preferences
\* ------------------------------------------------------------------------
\* a config with a low maximum that enables dynamic slippage
cfgTiny == [maxSlippagePercent |-> Rat(1, 10), toleranceLevel |-> "STRICT",
            enableDynamicSlippage |-> TRUE]

\* contexts whose expected price is zero and negative
ctxZeroPrice == [ctxBtc EXCEPT !.expectedPrice = Int2R(0)]
ctxNegativePrice == [ctxBtc EXCEPT !.expectedPrice = Int2R(-45000)]

RecordContexts ==
    {ctxBtc, WithUser(ctxBtc, "user123"), ctxEth, ctxZeroPrice, ctxNegativePrice}

\* the execution price reported for a context
ExecutedAt(context) == NumAdd(context.expectedPrice, Int2R(90))

NextRecord ==
    \/ \E c \in {cfgStrict, cfgTiny} :
           SetUserPreferences("user123", c, [kind |-> "none"])
    \/ \E c \in {cfgBtc, cfgTiny} : SetSymbolOverride("user123", "BTC/USD", c)
    \/ ClearUserPreferences(EmptyMap)
    \/ \E c \in RecordContexts : RecordSlippage(c, ExecutedAt(c))

SpecRecord == Init /\ [][NextRecord]_vars

\* the maxSlippagePercent of the config in force for a context: the user's
\* override for the symbol, else the user's default, else the system default
StaticLimit(x) ==
    LET known == Has(x, "userId") /\ x.userId \in DOMAIN userPreferences
    IN  IF known /\ HasOverride(x.userId, x.symbol)
        THEN OverrideOf(x.userId, x.symbol).maxSlippagePercent
        ELSE IF known THEN userPreferences[x.userId].defaultConfig.maxSlippagePercent
        ELSE Rat(1, 2)

DynamicInForce(x) ==
    LET known == Has(x, "userId") /\ x.userId \in DOMAIN userPreferences
        cfg == IF known /\ HasOverride(x.userId, x.symbol)
               THEN OverrideOf(x.userId, x.symbol)
               ELSE IF known THEN userPreferences[x.userId].defaultConfig
               ELSE [enableDynamicSlippage |-> TRUE]
    IN  Has(cfg, "enableDynamicSlippage") /\ cfg.enableDynamicSlippage

\* C12: the withinLimits flag of the report of recordSlippage is true exactly
\* when the realized slippage percent is at most the static
\* maxSlippagePercent of the config resolved for the context's user and
\* symbol (symbol override, else user default, else system default), also
\* when that config enables dynamic slippage.
C12_WithinLimitsStatic ==
    ret.op = "recordSlippage" =>
        LET x == ret.context
            r == ret.result
            realized == NumMul(NumDiv(MathAbs(NumSub(r.actualPrice, x.expectedPrice)),
                                      x.expectedPrice), Int2R(100))
        IN  /\ r.slippagePercent = realized
            /\ r.withinLimits <=> NumLe(realized, StaticLimit(x))

\* a report above a static limit m but below 3m, under a config that enables
\* dynamic slippage, is marked as exceeding
C12_Witness ==
    /\ ret.op = "recordSlippage"
    /\ DynamicInForce(ret.context)
    /\ NumGt(ret.result.slippagePercent, StaticLimit(ret.context))
    /\ NumLe(ret.result.slippagePercent, NumMul(StaticLimit(ret.context), Int2R(3)))
    /\ ~ret.result.withinLimits

\* C14 as stated: a recordSlippage call whose context has expectedPrice <= 0
\* is rejected: it returns no report, appends nothing to the log and does
\* not update the history.
C14_Original ==
    [][\A c \in RecordContexts :
          (RecordSlippage(c, ExecutedAt(c)) /\ NumLe(c.expectedPrice, Int2R(0)))
          => /\ ~Has(ret', "result")
             /\ slippageReports' = slippageReports
             /\ historicalSlippage' = historicalSlippage]_vars

\* ------------------------------------------------------------------------
\* recordSlippage: one report and one history update
\* ------------------------------------------------------------------------
\* the completed recordSlippage calls for symbol s
RECURSIVE TradesOf(_, _)
TradesOf(seq, s) ==
    IF seq = <<>> THEN 0
    ELSE (IF seq[1].symbol = s THEN 1 ELSE 0) + TradesOf(Tail(seq), s)

\* the reports of symbol s in the log
ReportsOf(s) == Cardinality({i \in 1..Len(slippageReports) : slippageReports[i].symbol = s})

\* C13: every completed recordSlippage call for symbol s appends exactly one
\* report as the newest log entry and applies exactly one history update for
\* s with that report's slippagePercent; hence, with no clear in between, the
\* history sampleCount of s equals the number of completed recordSlippage
\* calls for s, also after older reports of s have left the log.
C13_OneReportOneUpdate ==
    /\ [](\A s \in Symbols : Count(historicalSlippage, s) = TradesOf(trades, s))
    /\ [][recorded' = recorded + 1 =>
             LET r == ret'.result
                 s == ret'.context.symbol
                 n == Count(historicalSlippage, s)
             IN  /\ ret'.op = "recordSlippage"
                 /\ r.symbol = s
                 /\ slippageReports'[Len(slippageReports')] = r
                 /\ \A i \in 1..(Len(slippageReports') - 1) :
                        \E j \in 1..Len(slippageReports) :
                            slippageReports'[i] = slippageReports[j]
                 /\ \A j \in 1..Len(slippageReports) : slippageReports[j].id # r.id
                 /\ historicalSlippage'[s].sampleCount = n + 1
                 /\ NumMul(historicalSlippage'[s].averageSlippage, Int2R(n + 1)) =
                        NumAdd(IF n = 0 THEN Int2R(0)
                               ELSE NumMul(historicalSlippage[s].averageSlippage, Int2R(n)),
                               r.slippagePercent)
                 /\ \A o \in Symbols \ {s} :
                        /\ o \in DOMAIN historicalSlippage' <=> o \in DOMAIN historicalSlippage
                        /\ o \in DOMAIN historicalSlippage =>
                               historicalSlippage'[o] = historicalSlippage[o]]_vars

\* three calls for BTC/USD are counted by the history while the full log
\* holds at most one of their reports
C13_Witness ==
    /\ ret.op = "recordSlippage"
    /\ Len(slippageReports) = MAX_REPORTS_IN_MEMORY
    /\ TradesOf(trades, "BTC/USD") >= 3
    /\ ReportsOf("BTC/USD") <= 1
    /\ historicalSlippage["BTC/USD"].sampleCount = TradesOf(trades, "BTC/USD")

\* ------------------------------------------------------------------------
\* Failures of the market depth provider
\* ------------------------------------------------------------------------
\* What a call returns to its caller when the provider rejects the request
\* the call is suspended on: both catch blocks log and rethrow the error
\* they caught.  provided is the error the provider rejected with.
Rethrown(call, c, error) ==
    [op |-> IF call.kind = "estimateSlippage" THEN "estimateSlippage.throw"
            ELSE "validateTradeExecution.throw",
     call |-> c, at |-> call.pc, fetched |-> call.fetched,
     provided |-> error, error |-> error]

\* getCurrentMarketPrice rejects
ProviderPriceFails(c, error) ==
    /\ c \in DOMAIN calls
    /\ calls[c].pc = "getCurrentMarketPrice"
    /\ ret' = Rethrown(calls[c], c, error)
    /\ calls' = MapDelete(calls, c)
    /\ UNCHANGED <<prefVars, logVars, histVars, now>>

\* getMarketDepth rejects
ProviderDepthFailsFallback(c, error) == ProviderDepth(c, bookEmpty)

ProviderDepthFails(c, error) ==
    /\ c \in DOMAIN calls
    /\ calls[c].pc = "getMarketDepth"
    /\ ret' = Rethrown(calls[c], c, error)
    /\ calls' = MapDelete(calls, c)
    /\ UNCHANGED <<prefVars, logVars, histVars, now>>

ProviderErrors == {"ECONNREFUSED", "order book unavailable"}

\* contexts and requests with a quantity or a price that is not positive
FetchContexts ==
    {WithUser(TradeContext("BTC/USD", 1, 1000), "user123"),
     TradeContext("BTC/USD", 0, 1000),
     TradeContext("BTC/USD", -1, 1000),
     TradeContext("BTC/USD", 1, -1000),
     TradeContext("BTC/USD", 1, 0)}

FetchDtos ==
    {[symbol |-> "BTC/USD", side |-> "sell", quantity |-> Int2R(2)],
     [symbol |-> "BTC/USD", side |-> "buy", quantity |-> Int2R(0),
      expectedPrice |-> Int2R(1000)]}

FetchPrices == {Int2R(1000), Int2R(0)}

NextFetch ==
    \/ SetUserPreferences("user123", cfgStrict, [kind |-> "none"])
    \/ recorded = 0 /\ RecordSlippage(ctxBtc, Int2R(45090))
    \/ \E x \in FetchContexts : ValidateStart(1, x, EmptyMap)
    \/ \E d \in FetchDtos : EstimateStart(1, d)
    \/ \E p \in FetchPrices : ProviderPrice(1, p)
    \/ \E d \in {bookTight, bookEmpty} : ProviderDepth(1, d)
    \/ \E e \in ProviderErrors : ProviderPriceFails(1, e)
    \/ \E e \in ProviderErrors : ProviderDepthFails(1, e)

SpecFetch == Init /\ [][NextFetch]_vars

\* the request a completed call was made with
RequestOf(r) == IF r.op = "estimateSlippage" THEN r.dto ELSE r.context

\* the estimate a completed call obtained
EstimateOf(r) == IF r.op = "estimateSlippage" THEN r.result ELSE r.estimation

\* C15 as stated: estimateSlippage and validateTradeExecution return no
\* estimate or decision when the reference price (the request's
\* expectedPrice if present, else the provider's current price) is <= 0 or
\* the quantity is zero or negative.
C15_Original ==
    ret.op \in {"estimateSlippage", "validateTradeExecution"} =>
        LET q == RequestOf(ret)
            referencePrice == IF Has(q, "expectedPrice") THEN q.expectedPrice
                              ELSE EstimateOf(ret).currentMarketPrice
        IN  /\ NumGt(referencePrice, Int2R(0))
            /\ NumGt(q.quantity, Int2R(0))

\* C16: when the provider fails on the current price or on the depth, the
\* call fails with that same error; each fetch was requested at most once,
\* the call is over (no retry), it returns no estimate or decision, and
\* the preference store, the report log and the history are unchanged.
C16_ProviderFailure ==
    [][\A e \in ProviderErrors :
          (ProviderPriceFails(1, e) \/ ProviderDepthFails(1, e))
          => /\ ret'.op = IF calls[1].kind = "estimateSlippage"
                          THEN "estimateSlippage.throw"
                          ELSE "validateTradeExecution.throw"
             /\ ret'.error = e
             /\ ~Has(ret', "result")
             /\ ~Has(ret', "estimation")
             /\ ret'.fetched \in {<<"getCurrentMarketPrice">>,
                                  <<"getCurrentMarketPrice", "getMarketDepth">>}
             /\ ret'.fetched[Len(ret'.fetched)] = calls[1].pc
             /\ 1 \notin DOMAIN calls'
             /\ StoreView(userPreferences', mapHeap') =
                    StoreView(userPreferences, mapHeap)
             /\ slippageReports' = slippageReports
             /\ historicalSlippage' = historicalSlippage]_vars

\* a validateTradeExecution call has failed on the depth fetch, after its
\* price fetch was answered, while the stores hold data
C16_Witness ==
    /\ ret.op = "validateTradeExecution.throw"
    /\ ret.at = "getMarketDepth"
    /\ ret.error = "order book unavailable"
    /\ calls = EmptyMap
    /\ userPreferences # EmptyMap
    /\ slippageReports # <<>>
    /\ historicalSlippage # EmptyMap

\* ------------------------------------------------------------------------
\* The execution-time budget
\* ------------------------------------------------------------------------
\* a per-call config whose budget is a single unit of the clock
cfgHurried == [maxSlippagePercent |-> Int2R(2), toleranceLevel |-> "RELAXED",
               enableDynamicSlippage |-> FALSE, maxExecutionTimeMs |-> Int2R(1)]

DeadlineContexts ==
    {TradeContext("BTC/USD", 1, 1000), TradeContext("BTC/USD", 2, 1000),
     TradeContext("ETH/USD", 10, 1000)}

DeadlineArgs == {EmptyMap, [override |-> cfgHurried]}

NextDeadline ==
    \/ \E x \in DeadlineContexts, a \in DeadlineArgs : ValidateStart(1, x, a)
    \/ \E p \in MarketPrices : ProviderPrice(1, p)
    \/ \E d \in Books : ProviderDepth(1, d)
    \/ Tick

SpecDeadline == Init /\ [][NextDeadline]_vars

\* the decision of a validateTradeExecution call that takes no time, for the
\* same request and the same answers of the provider
ZeroElapsedDecision(context, args, currentPrice, depth) ==
    LET config == getApplicableConfig(userPreferences, mapHeap, context, args)
        dto == [symbol |-> context.symbol, side |-> context.side,
                quantity |-> context.quantity,
                expectedPrice |-> context.expectedPrice]
    IN  ProtectionResult(config,
                         estimateSlippage(dto, currentPrice, depth, historicalSlippage))

\* C17: the execution-time budget is a soft deadline: whatever time elapses
\* during validateTradeExecution, the passing of time never ends the call,
\* and the call ends by returning exactly the decision it would return with
\* zero elapsed time, never by an error.
C17_SoftDeadline ==
    [][/\ now' # now => calls' = calls
       /\ \A c \in DOMAIN calls :
              c \notin DOMAIN calls'
              => /\ ret'.op = "validateTradeExecution"
                 /\ ret'.executionTime = now - calls[c].startTime
                 /\ ret'.result =
                        ZeroElapsedDecision(calls[c].context, calls[c].args,
                                            calls[c].currentPrice, ret'.depth)]_vars

\* a call that took twice its budget has returned a decision that allows
\* the trade
C17_Witness ==
    /\ ret.op = "validateTradeExecution"
    /\ Has(ret.config, "maxExecutionTimeMs")
    /\ NumGt(Int2R(ret.executionTime), ret.config.maxExecutionTimeMs)
    /\ ret.late
    /\ ret.result.allowed
    /\ ret.result.recommendation = "proceed"

\* ------------------------------------------------------------------------
\* Queries on the report log
\* ------------------------------------------------------------------------
\* Array.prototype.slice(0, end)
SliceTo(seq, end) ==
    LET k == IF end < 0 THEN (IF Len(seq) + end < 0 THEN 0 ELSE Len(seq) + end)
             ELSE IF end > Len(seq) THEN Len(seq) ELSE end
    IN  SubSeq(seq, 1, k)

\* reports.sort((a, b) => b.timestamp.getTime() - a.timestamp.getTime()):
\* the sort is stable, so reports of equal timestamp keep their order
RECURSIVE SortNewestFirst(_)
SortNewestFirst(reports) ==
    IF reports = <<>> THEN <<>>
    ELSE LET r == reports[Len(reports)]
             sorted == SortNewestFirst(SubSeq(reports, 1, Len(reports) - 1))
             k == Cardinality({i \in 1..Len(sorted) :
                                  sorted[i].timestamp >= r.timestamp})
         IN  SubSeq(sorted, 1, k) \o <<r>> \o SubSeq(sorted, k + 1, Len(sorted))

\* getSlippageReports(filters?): filters holds the properties that are given
getSlippageReports(reports, filters) ==
    LET BySymbol(r) == r.symbol = filters.symbol
        ByStart(r) == r.timestamp >= filters.startDate
        ByEnd(r) == r.timestamp <= filters.endDate
        Exceeded(r) == ~r.withinLimits
        r1 == IF Has(filters, "symbol") /\ filters.symbol # ""
              THEN SelectSeq(reports, BySymbol) ELSE reports
        r2 == IF Has(filters, "startDate") THEN SelectSeq(r1, ByStart) ELSE r1
        r3 == IF Has(filters, "endDate") THEN SelectSeq(r2, ByEnd) ELSE r2
        r4 == IF Has(filters, "onlyExceeded") /\ filters.onlyExceeded
              THEN SelectSeq(r3, Exceeded) ELSE r3
        sorted == SortNewestFirst(r4)
    IN  IF Has(filters, "limit") /\ filters.limit # 0
        THEN SliceTo(sorted, filters.limit)
        ELSE sorted

\* a call of getSlippageReports(filters?)
GetSlippageReports(filters) ==
    /\ ret' = [op |-> "getSlippageReports", filters |-> filters,
               result |-> getSlippageReports(slippageReports, filters)]
    /\ UNCHANGED <<prefVars, logVars, histVars, now, calls>>

\* milliseconds of a day: setDate(getDate() - daysBack) moves the cutoff back
\* by whole days
DayMs == 86400000

RECURSIVE SumOf(_)
SumOf(seq) == IF seq = <<>> THEN Int2R(0) ELSE NumAdd(SumOf(Tail(seq)), seq[1])

\* Math.max(...seq) and Math.min(...seq)
RECURSIVE MathMaxOf(_)
MathMaxOf(seq) ==
    IF seq = <<>> THEN NegInfinity ELSE MathMax(seq[1], MathMaxOf(Tail(seq)))

RECURSIVE MathMinOf(_)
MathMinOf(seq) ==
    IF seq = <<>> THEN Infinity ELSE MathMin(seq[1], MathMinOf(Tail(seq)))

\* the statistics of a sequence of reports that is not empty
StatisticsOf(relevantReports) ==
    LET slippages == [i \in 1..Len(relevantReports) |->
                         relevantReports[i].slippagePercent]
        costs == [i \in 1..Len(relevantReports) |->
                     relevantReports[i].totalSlippageCost]
        Exceeded(r) == ~r.withinLimits
    IN  [averageSlippage |-> NumDiv(SumOf(slippages), Int2R(Len(slippages))),
         maxSlippage |-> MathMaxOf(slippages),
         minSlippage |-> MathMinOf(slippages),
         totalTrades |-> Int2R(Len(relevantReports)),
         tradesExceededLimits |-> Int2R(Len(SelectSeq(relevantReports, Exceeded))),
         totalSlippageCost |-> SumOf(costs)]

\* the reports getSlippageStatistics computes over; args holds daysBack when given
RelevantReports(reports, symbol, args, time) ==
    LET daysBack == IF Has(args, "daysBack") THEN args.daysBack ELSE 7
        cutoffDate == time - daysBack * DayMs
        Relevant(r) == r.symbol = symbol /\ r.timestamp >= cutoffDate
    IN  SelectSeq(reports, Relevant)

\* getSlippageStatistics(symbol, daysBack = 7)
getSlippageStatisticsNoGuard(reports, symbol, args, time) ==
    StatisticsOf(RelevantReports(reports, symbol, args, time))

getSlippageStatistics(reports, symbol, args, time) ==
    LET relevantReports == RelevantReports(reports, symbol, args, time)
    IN  IF Len(relevantReports) = 0
        THEN [averageSlippage |-> Int2R(0),
              maxSlippage |-> Int2R(0),
              minSlippage |-> Int2R(0),
              totalTrades |-> Int2R(0),
              tradesExceededLimits |-> Int2R(0),
              totalSlippageCost |-> Int2R(0)]
        ELSE StatisticsOf(relevantReports)

\* a call of getSlippageStatistics(symbol, daysBack?)
GetSlippageStatistics(symbol, args) ==
    /\ ret' = [op |-> "getSlippageStatistics", symbol |-> symbol, args |-> args,
               result |-> getSlippageStatistics(slippageReports, symbol, args, now)]
    /\ UNCHANGED <<prefVars, logVars, histVars, now, calls>>

\* recordSlippage calls between two queries
MaxTrades == 3

\* three trades, the first earlier than the other two
ctxT1 == [symbol |-> "BTC/USD", side |-> "buy", quantity |-> Int2R(1),
          expectedPrice |-> Int2R(45000), timestamp |-> 0]
ctxT2 == [symbol |-> "BTC/USD", side |-> "sell", quantity |-> Rat(1, 2),
          expectedPrice |-> Int2R(45100), timestamp |-> 1]
ctxT3 == [symbol |-> "ETH/USD", side |-> "buy", quantity |-> Int2R(10),
          expectedPrice |-> Int2R(3000), timestamp |-> 1]

QueryContexts == {ctxT1, ctxT2, ctxT3}

ReportFilters ==
    {EmptyMap,
     [symbol |-> "BTC/USD"],
     [startDate |-> 1],
     [endDate |-> 0],
     [onlyExceeded |-> TRUE],
     [limit |-> 0],
     [limit |-> 1],
     [limit |-> 2],
     [symbol |-> "BTC/USD", startDate |-> 1, endDate |-> 2,
      onlyExceeded |-> FALSE, limit |-> 1]}

StatisticsArgs == {EmptyMap, [daysBack |-> 0]}

\* a trade is recorded at or after its own time
NextQuery ==
    \/ \E c \in QueryContexts :
           /\ recorded < MaxTrades
           /\ c.timestamp <= now
           /\ RecordSlippage(c, NumAdd(c.expectedPrice, Int2R(50)))
    \/ ClearReports
    \/ Tick
    \/ \E f \in ReportFilters : GetSlippageReports(f)
    \/ \E s \in Symbols, a \in StatisticsArgs : GetSlippageStatistics(s, a)

SpecQuery == Init /\ [][NextQuery]_vars

\* report r passes every filter that is given
Matches(r, f) ==
    /\ Has(f, "symbol") => r.symbol = f.symbol
    /\ Has(f, "startDate") => r.timestamp >= f.startDate
    /\ Has(f, "endDate") => r.timestamp <= f.endDate
    /\ (Has(f, "onlyExceeded") /\ f.onlyExceeded) => ~r.withinLimits

\* C18 as stated: getSlippageReports returns exactly the logged reports that
\* pass all given filters, newest first, and with a limit n >= 0 only the
\* first n of that sequence, so at most n reports; the log is not changed.
C18_Original ==
    [][ret'.op = "getSlippageReports" =>
          LET f == ret'.filters
              res == ret'.result
              all == {i \in 1..Len(slippageReports) : Matches(slippageReports[i], f)}
              got == {i \in 1..Len(slippageReports) :
                         \E j \in 1..Len(res) : res[j] = slippageReports[i]}
          IN  /\ slippageReports' = slippageReports
              /\ got \subseteq all
              /\ Cardinality(got) = Len(res)
              /\ \A j \in 1..(Len(res) - 1) : res[j].timestamp >= res[j + 1].timestamp
              /\ \A i \in all \ got, j \in 1..Len(res) :
                     slippageReports[i].timestamp <= res[j].timestamp
              /\ Len(res) = IF Has(f, "limit") THEN Min(f.limit, Cardinality(all))
                            ELSE Cardinality(all)]_vars

\* C19 as stated: the startDate filter selects reports by the time of the
\* trade they were recorded for: with every recorded trade still in the
\* log, getSlippageReports({startDate: t}) returns exactly the reports of
\* the trades whose context timestamp is >= t.
C19_Original ==
    (/\ ret.op = "getSlippageReports"
     /\ DOMAIN ret.filters = {"startDate"}
     /\ Len(slippageReports) = Len(trades))
    => {ret.result[j].id : j \in 1..Len(ret.result)} =
           {i \in 1..Len(trades) : trades[i].timestamp >= ret.filters.startDate}

\* C20: getSlippageStatistics never fails, and a query for a symbol with no
\* report of that symbol inside the daysBack window returns
\* averageSlippage, maxSlippage, minSlippage, totalTrades,
\* tradesExceededLimits and totalSlippageCost all equal to 0, whatever the
\* log holds.
C20_StatisticsZero ==
    ret.op = "getSlippageStatistics" =>
        LET days == IF Has(ret.args, "daysBack") THEN ret.args.daysBack ELSE 7
            none == \A i \in 1..Len(slippageReports) :
                        \/ slippageReports[i].symbol # ret.symbol
                        \/ slippageReports[i].timestamp < now - days * DayMs
        IN  /\ Has(ret, "result")
            /\ ~Has(ret, "error")
            /\ none => /\ DOMAIN ret.result =
                              {"averageSlippage", "maxSlippage", "minSlippage",
                               "totalTrades", "tradesExceededLimits",
                               "totalSlippageCost"}
                       /\ \A k \in DOMAIN ret.result : ret.result[k] = Int2R(0)

\* the log holds a BTC/USD report older than the window and an ETH/USD
\* report, and the statistics of BTC/USD are all zero
C20_Witness ==
    /\ ret.op = "getSlippageStatistics"
    /\ ret.symbol = "BTC/USD"
    /\ ret.args = [daysBack |-> 0]
    /\ \E i \in 1..Len(slippageReports) :
           slippageReports[i].symbol = "BTC/USD" /\ slippageReports[i].timestamp < now
    /\ \E i \in 1..Len(slippageReports) : slippageReports[i].symbol = "ETH/USD"
    /\ ret.result.totalTrades = Int2R(0)
    /\ ret.result.averageSlippage = Int2R(0)

\* ------------------------------------------------------------------------
\* TradingService.shouldSplitOrder
\* ------------------------------------------------------------------------
\* Math.ceil
MathCeil(x) ==
    IF x.d = 0 THEN x ELSE Int2R(-((-x.n) \div x.d))

\* the variables of the search when the loop is entered
SearchInit(totalQuantity) ==
    [low |-> NumMul(totalQuantity, Rat(1, 10)),
     high |-> totalQuantity,
     optimalChunkSize |-> totalQuantity]

\* while (high - low > totalQuantity * 0.05)
SearchContinues(search, totalQuantity) ==
    NumGt(NumSub(search.high, search.low), NumMul(totalQuantity, Rat(5, 100)))

\* const mid = (low + high) / 2
SearchMid(search) == NumDiv(NumAdd(search.low, search.high), Int2R(2))

\* the body of the loop after the estimate for mid has arrived
SearchStepKeepLow(search, within) ==
    IF within
    THEN [low |-> search.low, high |-> search.high,
          optimalChunkSize |-> SearchMid(search)]
    ELSE [low |-> search.low, high |-> SearchMid(search),
          optimalChunkSize |-> search.optimalChunkSize]

SearchStep(search, within) ==
    IF within
    THEN [low |-> SearchMid(search), high |-> search.high,
          optimalChunkSize |-> SearchMid(search)]
    ELSE [low |-> search.low, high |-> SearchMid(search),
          optimalChunkSize |-> search.optimalChunkSize]

\* the value shouldSplitOrder returns after the loop
SplitResult(totalQuantity, search) ==
    [shouldSplit |-> TRUE,
     reason |-> "Full order would exceed slippage limit",
     recommendedChunkSize |-> search.optimalChunkSize,
     estimatedChunks |-> MathCeil(NumDiv(totalQuantity, search.optimalChunkSize))]

\* shouldSplitOrder(symbol, side, totalQuantity, maxSlippagePercent) up to
\* its first suspension, inside estimateSlippage for the full order.
\* estimates counts the estimates awaited in the loop, accepted lists the
\* midpoints found within the threshold, and rejected the quantities found
\* above it.
SplitStart(c, symbol, side, totalQuantity, maxSlippagePercent) ==
    /\ c \notin DOMAIN calls
    /\ calls' = MapSet(calls, c,
                    [kind |-> "shouldSplitOrder",
                     pc |-> "getCurrentMarketPrice",
                     phase |-> "fullOrderEstimate",
                     dto |-> [symbol |-> symbol, side |-> side,
                              quantity |-> totalQuantity],
                     totalQuantity |-> totalQuantity,
                     maxSlippagePercent |-> maxSlippagePercent,
                     search |-> SearchInit(totalQuantity),
                     estimates |-> 0,
                     accepted |-> <<>>,
                     rejected |-> <<>>,
                     fetched |-> <<"getCurrentMarketPrice">>])
    /\ ret' = [op |-> "shouldSplitOrder.start", call |-> c]
    /\ UNCHANGED <<prefVars, logVars, histVars, now>>

\* shouldSplitOrder from the return of an awaited estimate to its next
\* estimate or to its end
SplitNext(c, call, estimate) ==
    LET within == NumLe(estimate.estimatedSlippagePercent, call.maxSlippagePercent)
        inLoop == call.phase = "midEstimate"
        search == IF inLoop THEN SearchStep(call.search, within) ELSE call.search
        estimates == IF inLoop THEN call.estimates + 1 ELSE call.estimates
        accepted == IF inLoop /\ within
                    THEN Append(call.accepted, call.dto.quantity) ELSE call.accepted
        rejected == IF within THEN call.rejected
                    ELSE Append(call.rejected, call.dto.quantity)
        done == [op |-> "shouldSplitOrder",
                 totalQuantity |-> call.totalQuantity,
                 maxSlippagePercent |-> call.maxSlippagePercent,
                 search |-> search, estimates |-> estimates,
                 accepted |-> accepted, rejected |-> rejected]
    IN  IF ~inLoop /\ within
        THEN /\ ret' = [k \in DOMAIN done \cup {"result"} |->
                           IF k = "result"
                           THEN [shouldSplit |-> FALSE,
                                 reason |-> "Full order within acceptable slippage limits"]
                           ELSE done[k]]
             /\ calls' = MapDelete(calls, c)
        ELSE IF SearchContinues(search, call.totalQuantity)
        THEN /\ calls' = [calls EXCEPT ![c] =
                             [call EXCEPT !.pc = "getCurrentMarketPrice",
                                          !.phase = "midEstimate",
                                          !.dto.quantity = SearchMid(search),
                                          !.search = search,
                                          !.estimates = estimates,
                                          !.accepted = accepted,
                                          !.rejected = rejected,
                                          !.fetched = Append(@, "getCurrentMarketPrice")]]
             /\ ret' = [op |-> "shouldSplitOrder.estimate", call |-> c]
        ELSE /\ ret' = [k \in DOMAIN done \cup {"result"} |->
                           IF k = "result"
                           THEN SplitResult(call.totalQuantity, search)
                           ELSE done[k]]
             /\ calls' = MapDelete(calls, c)

\* The provider answers getMarketDepth inside an estimateSlippage awaited by
\* shouldSplitOrder: the estimate returns, and the call runs on to its next
\* estimate or to its end.
SplitDepth(c, depth) ==
    /\ c \in DOMAIN calls
    /\ calls[c].kind = "shouldSplitOrder"
    /\ calls[c].pc = "getMarketDepth"
    /\ SplitNext(c, calls[c],
                 estimateSlippage(calls[c].dto, calls[c].currentPrice, depth,
                                  historicalSlippage))
    /\ UNCHANGED <<prefVars, logVars, histVars, now>>

\* order books on which every estimate is within, and above, half a percent
bookDeep == [bids |-> <<Level(1000, 100)>>, asks |-> <<Level(1000, 100)>>,
             timestamp |-> 0]
bookFar == [bids |-> <<Level(990, 100)>>, asks |-> <<Level(1010, 100)>>,
            timestamp |-> 0]

SplitQuantities == {Int2R(1), Int2R(10)}

NextSplit ==
    \/ \E q \in SplitQuantities : SplitStart(1, "BTC/USD", "buy", q, Rat(1, 2))
    \/ \E p \in MarketPrices : ProviderPrice(1, p)
    \/ \E d \in {bookDeep, bookFar} : SplitDepth(1, d)

SpecSplit == Init /\ [][NextSplit]_vars

\* 2 to the power k
RECURSIVE Pow2(_)
Pow2(k) == IF k = 0 THEN 1 ELSE 2 * Pow2(k - 1)

\* the width of the search interval
Width(search) == NumSub(search.high, search.low)

\* C21: the chunk-size search of shouldSplitOrder always terminates: the
\* interval starts as [0.1*total, total], every estimate of the loop halves
\* it whatever its outcome, the loop goes on only while the width is above
\* 5% of totalQuantity, and so at most 5 estimates are awaited in the loop.
C21_SearchTerminates ==
    /\ [](\A c \in DOMAIN calls :
             calls[c].kind = "shouldSplitOrder" =>
                 LET call == calls[c]
                 IN  /\ call.estimates < 5
                     /\ NumMul(Width(call.search), Int2R(Pow2(call.estimates))) =
                            NumMul(call.totalQuantity, Rat(9, 10))
                     /\ call.phase = "midEstimate" =>
                            NumGt(Width(call.search),
                                  NumMul(call.totalQuantity, Rat(1, 20))))
    /\ [](ret.op = "shouldSplitOrder" =>
             /\ ret.estimates <= 5
             /\ ret.result.shouldSplit =>
                    /\ NumLe(Width(ret.search), NumMul(ret.totalQuantity, Rat(1, 20)))
                    /\ NumMul(Width(ret.search), Int2R(Pow2(ret.estimates))) =
                           NumMul(ret.totalQuantity, Rat(9, 10)))

\* a search has ended after five estimates, some within and some above the
\* threshold
C21_Witness ==
    /\ ret.op = "shouldSplitOrder"
    /\ ret.result.shouldSplit
    /\ ret.estimates = 5
    /\ Len(ret.accepted) >= 2
    /\ Len(ret.rejected) >= 3

\* C27 as stated: whenever shouldSplitOrder returns shouldSplit = true, the
\* recommendedChunkSize is a quantity in [0.1*totalQuantity, totalQuantity]
\* whose estimated slippage was found to be <= maxSlippagePercent during the
\* search, the largest accepted midpoint, and estimatedChunks is
\* ceil(totalQuantity / recommendedChunkSize), also when no midpoint of the
\* search was within the threshold.
C27_Original ==
    (ret.op = "shouldSplitOrder" /\ ret.result.shouldSplit) =>
        LET size == ret.result.recommendedChunkSize
        IN  /\ NumGe(size, NumMul(ret.totalQuantity, Rat(1, 10)))
            /\ NumLe(size, ret.totalQuantity)
            /\ \E i \in 1..Len(ret.accepted) : ret.accepted[i] = size
            /\ \A i \in 1..Len(ret.accepted) : NumLe(ret.accepted[i], size)
            /\ \A i \in 1..Len(ret.rejected) : ret.rejected[i] # size
            /\ ret.result.estimatedChunks =
                   MathCeil(NumDiv(ret.totalQuantity, size))

\* ------------------------------------------------------------------------
\* Properties of the estimate
\* ------------------------------------------------------------------------
\* C22 as stated: for all requests and all order-book snapshots (empty
\* sides, a single level, any requested quantity) the liquidityScore
\* returned by estimateSlippage satisfies 0 <= liquidityScore <= 1.
C22_Original ==
    ret.op \in {"estimateSlippage", "validateTradeExecution"} =>
        /\ NumGe(EstimateOf(ret).liquidityScore, Int2R(0))
        /\ NumLe(EstimateOf(ret).liquidityScore, Int2R(1))

\* ------------------------------------------------------------------------
\* The calculator's pure functions, applied to bounded inputs
\* ------------------------------------------------------------------------
\* a call of calculateDynamicTolerance(base, liquidityScore, volatility)
CalculateDynamicTolerance(base, liquidityScore, volatility) ==
    /\ ret' = [op |-> "calculateDynamicTolerance", base |-> base,
               liquidityScore |-> liquidityScore, volatility |-> volatility,
               result |-> calculateDynamicTolerance(base, liquidityScore,
                                                    volatility)]
    /\ UNCHANGED <<prefVars, logVars, histVars, now, calls>>

\* calculateExecutionPrice(quantity, side, depth) as estimateSlippage calls it
CalculateExecutionPrice(quantity, side, depth) ==
    /\ ret' = [op |-> "calculateExecutionPrice", quantity |-> quantity,
               side |-> side, depth |-> depth,
               result |-> calculateExecutionPrice(quantity, side, depth)]
    /\ UNCHANGED <<prefVars, logVars, histVars, now, calls>>

ToleranceBases == {Int2R(-1), Int2R(0), Rat(1, 10), Rat(1, 2), Int2R(1), Int2R(100)}
ToleranceLiquidity ==
    {Int2R(-1), Int2R(0), Rat(1, 10), Rat(3, 10), Rat(49, 100), Rat(1, 2),
     Rat(9, 10), Int2R(1), Int2R(2)}
ToleranceVolatility == {Int2R(-1), Int2R(0), Int2R(1), Int2R(2), Rat(21, 10),
                        Int2R(5), Int2R(100)}

bookSteep == [bids |-> <<Level(1000, 1), Level(900, 3)>>,
              asks |-> <<Level(1000, 1), Level(1100, 3)>>,
              timestamp |-> 0]
FillQuantities == {Rat(1, 2), Int2R(1), Int2R(2), Int2R(4), Int2R(5), Int2R(7)}
FillBooks == {bookTight, bookWide, bookSteep, bookEmpty}

NextPure ==
    \/ \E b \in ToleranceBases, l \in ToleranceLiquidity,
          v \in ToleranceVolatility : CalculateDynamicTolerance(b, l, v)
    \/ \E q \in FillQuantities, side \in {"buy", "sell"}, d \in FillBooks :
          CalculateExecutionPrice(q, side, d)

SpecPure == Init /\ [][NextPure]_vars

\* the conditions under which no adjustment is made
GoodConditions(r) ==
    NumGe(r.liquidityScore, Rat(1, 2)) /\ NumLe(r.volatility, Int2R(2))

RECURSIVE FillCost(_, _, _)
FillCost(orders, i, remaining) ==
    IF remaining = Int2R(0) THEN Int2R(0)
    ELSE IF i > Len(orders)
    THEN NumMul(remaining, NumMul(orders[Len(orders)].price, Rat(102, 100)))
    ELSE LET fill == MathMin(remaining, orders[i].quantity)
         IN  NumAdd(NumMul(fill, orders[i].price),
                    FillCost(orders, i + 1, NumSub(remaining, fill)))

OppositeSide(r) == IF r.side = "buy" THEN r.depth.asks ELSE r.depth.bids

\* C26: the projected execution price is the cost of walking the opposite
\* side in list order (min(remaining, level quantity) at each level's price,
\* any remainder at 1.02 times the last level's price) divided by the filled
\* quantity; on a non-empty side the filled quantity is the requested
\* quantity, and on an empty side the price is 0.
C26_ExecutionPrice ==
    ret.op = "calculateExecutionPrice" =>
        IF Len(OppositeSide(ret)) = 0 THEN ret.result = Int2R(0)
        ELSE NumMul(ret.result, ret.quantity) =
                 FillCost(OppositeSide(ret), 1, ret.quantity)

\* a sell of 7 on bids 1000 x 1, 900 x 3: 3 units are left over and priced
\* at 918
C26_Witness ==
    /\ ret.op = "calculateExecutionPrice"
    /\ ret.side = "sell"
    /\ ret.depth = bookSteep
    /\ ret.quantity = Int2R(7)
    /\ ret.result = Rat(6454, 7)

\* ------------------------------------------------------------------------
\* Estimates over a changing history
\* ------------------------------------------------------------------------
bookNear == [bids |-> <<Level(1000, 100)>>, asks |-> <<Level(1002, 100)>>,
             timestamp |-> 0]

EstimateBooks == {bookTight, bookWide, bookEmpty, bookDeep, bookNear, bookSteep}

EstimateRequests ==
    {[symbol |-> "BTC/USD", side |-> "buy", quantity |-> Int2R(1)],
     [symbol |-> "BTC/USD", side |-> "buy", quantity |-> Int2R(1),
      expectedPrice |-> Int2R(1000)],
     [symbol |-> "BTC/USD", side |-> "buy", quantity |-> Int2R(3),
      expectedPrice |-> Int2R(1000)]}

\* realized slippage percents fed to the history
HistoryValues == {Rat(1, 20), Int2R(5)}

NextEstimate ==
    \/ \E v \in HistoryValues : UpdateHistoricalSlippage("BTC/USD", v)
    \/ \E dto \in EstimateRequests : EstimateStart(1, dto)
    \/ \E p \in MarketPrices : ProviderPrice(1, p)
    \/ \E d \in EstimateBooks : ProviderDepth(1, d)

SpecEstimate == Init /\ [][NextEstimate]_vars

\* the recommendation the thresholds give for a percent and a score
RecommendationRule(slippagePercent, liquidityScore) ==
    IF NumGt(slippagePercent, Int2R(2)) \/ NumLt(liquidityScore, Rat(3, 10))
    THEN "delay"
    ELSE IF NumGt(slippagePercent, Rat(1, 2)) \/ NumLt(liquidityScore, Rat(6, 10))
    THEN "caution"
    ELSE "proceed"

\* C24: the recommendation of an estimate is a function of its slippage
\* percent and liquidity score only: delay if percent > 2.0 or score < 0.3,
\* otherwise caution if percent > 0.5 or score < 0.6, otherwise proceed,
\* whatever the stored history of the symbol.
C24_RecommendationRule ==
    ret.op = "estimateSlippage" =>
        ret.result.recommendation =
            RecommendationRule(ret.result.estimatedSlippagePercent,
                               ret.result.liquidityScore)

\* an estimate more than twice above the stored average of its symbol whose
\* recommendation is still proceed
C24_Witness ==
    /\ ret.op = "estimateSlippage"
    /\ ret.dto.symbol \in DOMAIN historicalSlippage
    /\ NumGt(ret.result.estimatedSlippagePercent,
             NumMul(historicalSlippage[ret.dto.symbol].averageSlippage, Int2R(2)))
    /\ ret.result.recommendation = "proceed"

\* C25 as stated: every estimate returned by estimateSlippage has
\* 0 < estimatedPriceRange.min < estimatedPriceRange.max, for any order
\* book, quantity and stored history, including when the projected
\* execution price equals the reference price.
C25_Original ==
    ret.op = "estimateSlippage" =>
        /\ NumGt(ret.result.estimatedPriceRange.min, Int2R(0))
        /\ NumLt(ret.result.estimatedPriceRange.min,
                 ret.result.estimatedPriceRange.max)

\* ------------------------------------------------------------------------
\* The read operations
\* ------------------------------------------------------------------------
NextFrame ==
    \/ SetUserPreferences("user123", cfgStrict, [kind |-> "none"])
    \/ recorded = 0 /\ RecordSlippage(ctxBtc, Int2R(45090))
    \/ \E x \in {WithUser(TradeContext("BTC/USD", 1, 1000), "user123")} :
           ValidateStart(1, x, EmptyMap)
    \/ \E d \in EstimateDtos : EstimateStart(1, d)
    \/ \E p \in MarketPrices : ProviderPrice(1, p)
    \/ \E d \in {bookTight, bookEmpty} : ProviderDepth(1, d)
    \/ \E e \in ProviderErrors : ProviderPriceFails(1, e)
    \/ \E e \in ProviderErrors : ProviderDepthFails(1, e)
    \/ \E f \in {EmptyMap, [symbol |-> "BTC/USD"]} : GetSlippageReports(f)
    \/ \E s \in Symbols : GetSlippageStatistics(s, EmptyMap)
    \/ \E u \in Users : GetUserPreferences(u)

SpecFrame == Init /\ [][NextFrame]_vars

\* what a step of validateTradeExecution, estimateSlippage,
\* getSlippageReports, getSlippageStatistics or getUserPreferences leaves as
\* the last completed step, returning or throwing
ReadOps ==
    {"validateTradeExecution.start", "validateTradeExecution",
     "validateTradeExecution.throw", "estimateSlippage.start",
     "estimateSlippage", "estimateSlippage.throw", "getCurrentMarketPrice",
     "getSlippageReports", "getSlippageStatistics", "getUserPreferences"}

\* C28: validateTradeExecution, estimateSlippage, getSlippageReports,
\* getSlippageStatistics and getUserPreferences are read-only: no step of
\* them, returning or throwing, changes the stored preferences, the report
\* log or the historical records.
C28_ReadOnly ==
    [][ret'.op \in ReadOps =>
           UNCHANGED <<userPreferences, mapHeap, slippageReports,
                       historicalSlippage>>]_vars

\* validateTradeExecution has thrown while preferences, a report and a
\* historical record are stored
C28_Witness ==
    /\ ret.op = "validateTradeExecution.throw"
    /\ "user123" \in DOMAIN userPreferences
    /\ slippageReports # <<>>
    /\ "BTC/USD" \in DOMAIN historicalSlippage

\* ------------------------------------------------------------------------
\* Preference writes during a pending validation
\* ------------------------------------------------------------------------
\* the configuration the store gives the last returned call now
ConfigNow(r) == getApplicableConfig(userPreferences, mapHeap, r.context, r.args)

\* C29: validateTradeExecution resolves its configuration once, before it
\* suspends: the configuration of the call is the one the store gives when
\* the call starts, no step changes it while the call is pending (whatever
\* setUserPreferences, setSymbolOverride or clearUserPreferences does to the
\* store meanwhile), and the decision's maxAllowedSlippage is derived from it.
C29_ConfigAtStart ==
    [][/\ ret'.op = "validateTradeExecution.start" =>
           calls'[1].config =
               getApplicableConfig(userPreferences, mapHeap, ret'.context,
                                   ret'.args)
       /\ (1 \in DOMAIN calls /\ 1 \in DOMAIN calls') =>
           calls'[1].config = calls[1].config
       /\ ret'.op = "validateTradeExecution" =>
           ret'.result.maxAllowedSlippage =
               calculateMaxAllowedSlippage(calls[1].config,
                                           ret'.estimation.liquidityScore)]_vars

\* a call has returned a limit derived from the configuration at its start
\* after a write changed the user's configuration to one with another limit
C29_Witness ==
    /\ ret.op = "validateTradeExecution"
    /\ Has(ret.context, "userId")
    /\ ~Has(ret.args, "override")
    /\ ConfigNow(ret) # ret.config
    /\ ret.result.maxAllowedSlippage #
           calculateMaxAllowedSlippage(ConfigNow(ret),
                                       ret.estimation.liquidityScore)

\* ------------------------------------------------------------------------
\* The frame of setSymbolOverride
\* ------------------------------------------------------------------------
\* the overrides of a user as readers see them, empty when there are none
OverridesView(prefs, heap, userId) ==
    IF userId \in DOMAIN prefs /\ Has(prefs[userId], "symbolOverrides")
    THEN heap[prefs[userId].symbolOverrides]
    ELSE EmptyMap

\* user's own record after a successful setSymbolOverride(userId, symbol, config)
OwnRecordUpdated(userId, symbol, config) ==
    LET before == OverridesView(userPreferences, mapHeap, userId)
        after == OverridesView(userPreferences', mapHeap', userId)
    IN  /\ userId \in DOMAIN userPreferences'
        /\ DOMAIN after = DOMAIN before \cup {symbol}
        /\ after[symbol] = config
        /\ \A t \in DOMAIN before \ {symbol} : after[t] = before[t]
        /\ userPreferences'[userId].defaultConfig =
               IF userId \in DOMAIN userPreferences
               THEN userPreferences[userId].defaultConfig
               ELSE DEFAULT_CONFIG

\* the records of the users other than userId are as they were
OtherRecordsUnchanged(userId) ==
    \A v \in Users \ {userId} :
        /\ v \in DOMAIN userPreferences' <=> v \in DOMAIN userPreferences
        /\ v \in DOMAIN userPreferences =>
               PrefsView(userPreferences', mapHeap', v) =
                   PrefsView(userPreferences, mapHeap, v)

\* C30 as stated: a successful setSymbolOverride(U, s, c) changes only U's
\* record and, within it, only the override for s: U's defaultConfig and
\* U's overrides for other symbols are unchanged, every other user's record
\* is unchanged, and when U had no record one is created with the system
\* default as defaultConfig and s -> c as its only override.
C30_Original ==
    [][\A u \in Users, s \in Symbols, c \in PrefOverrideConfigs :
           (SetSymbolOverride(u, s, c) /\ ret'.result = "ok") =>
               /\ OwnRecordUpdated(u, s, c)
               /\ OtherRecordsUnchanged(u)]_vars
====
